---- MODULE Spec2Model ----
(***************************************************************************)
(* Verification model of the scanner core:                                 *)
(*   - core.cache_manager.CacheManager        (two-tier expiring cache)    *)
(*   - core.utils.cache_manager.CacheManager  (pickle/ISO-date variant)    *)
(*   - core.orchestrator.ScanOrchestrator.run_scan                         *)
(* Each cache operation is one atomic action (the whole body runs under    *)
(* self.lock); run_scan is unrolled into its observable steps.             *)
(***************************************************************************)
EXTENDS Integers, Sequences, FiniteSets, TLC

(***************************************************************************)
(* Bounds of the model.                                                    *)
(***************************************************************************)
MaxTime == 2          \* the clock runs over 0..MaxTime
MaxTTL == 2           \* ttl_seconds ranges over 1..MaxTTL
MaxHits == 1          \* durable hit_count stays <= MaxHits, in-memory <= MaxHits + 1
MaxReports == 2       \* sub-callback calls a module makes during execute

Keys == {"k1", "k2"}
TTLs == 1..MaxTTL

\* Cached payloads.  "lst" is JSON-native (a list), "tup" holds a tuple
\* (json.dumps writes it as a list), "obj" is neither JSON serializable
\* nor picklable.
Values == {"lst", "tup", "obj"}

None == "None"

\* Arguments of set(): key k1 takes every payload and ttl; k2, the second
\* entry of sweeps and frame conditions, takes one payload and one ttl.
SetArgs ==
  {a \in Keys \X Values \X TTLs : a[1] = "k1" \/ (a[2] = "lst" /\ a[3] = MaxTTL)}

(***************************************************************************)
(* State.  The columns ttl_seconds / created_at are written by set() and   *)
(* read by no operation; rows and entries carry the fields that are read.  *)
(***************************************************************************)
VARIABLES
  impl,          \* class of the manager instance: "core" | "utils"
  now,           \* time.time() / datetime.utcnow()
  memory_cache,  \* self.memory_cache : dict key -> entry
  db,            \* rows of table 'cache' in the SQLite file
  lastOp,        \* observation: the last cache call and its outcome
  durableLost    \* history: keys whose in-memory entry was written by a
                 \* set() of this process whose durable write failed

cacheVars == <<impl, now, memory_cache, db, lastOp, durableLost>>

\* ScanOrchestrator (one object) and the caller's recording progress callback
VARIABLES
  selected_modules,  \* self.selected_modules, as the fields between the commas
  has_callback,      \* whether run_scan is given a progress_callback
  pc,                \* where run_scan is: idle, tech, loop, exec, done, crashed
  modules_to_run,    \* the filtered selection
  index,             \* loop index of the module being run (0-based)
  results,           \* self.results : dict id -> result
  results_order,     \* insertion order of the keys of self.results
  internal,          \* last internal percentage reported by the running module
  reports,           \* number of sub-callback calls made by the running module
  cb,                \* the callback's record: first and last value, count, monotonicity
  attempted,         \* history: ids whose try block was entered, in order
  outcomes,          \* history: how each attempted module ended
  runs,              \* number of run_scan calls started on the object
  run_limit          \* number of run_scan calls the caller makes

orchVars == <<selected_modules, has_callback, pc, modules_to_run, index, results,
              results_order, internal, reports, cb, attempted, outcomes, runs,
              run_limit>>

\* Callers of the pure parts: key derivation, HTTP caching, risk calculation
VARIABLES
  keygen,   \* the last two calls of APICallCacher._generate_cache_key, with their keys
  http,     \* calls of utils CacheManager.get_cached_response made so far
  risk      \* calls of RiskEngine(scan_results).calculate_risk() made so far

callVars == <<keygen, http, risk>>

\* Callers of the progress arithmetic of run_scan
VARIABLES
  slice     \* the module count, module index and internal percentage given to
            \* a sub-callback, with the overall percentage it reported

\* Threads that share one core CacheManager
VARIABLES
  lock,     \* self.lock: the thread that holds it, or "free"
  threads   \* per thread: the operation it is in and how far it has got

\* WebSecurityScanner (one object), its worker pool and its coordinating thread
VARIABLES
  scan      \* the futures of the three tasks, self.results, and how far
            \* scan() has got

\* The module-level cache instances and the threads that ask for them
VARIABLES
  singleton \* the globals _global_cache / _cache_manager, the instances
            \* constructed so far, and how far each caller has got

otherVars == <<slice, lock, threads, scan, singleton>>

nonCacheVars == <<orchVars, callVars, otherVars>>

nonOrchVars == <<cacheVars, callVars, otherVars>>

vars == <<cacheVars, orchVars, callVars, otherVars>>

(***************************************************************************)
(* Dictionaries and tables.                                                *)
(***************************************************************************)
EmptyDict == [x \in {} |-> None]

DictPut(d, k, e) == [x \in (DOMAIN d) \cup {k} |-> IF x = k THEN e ELSE d[x]]

DictDel(d, k) == [x \in (DOMAIN d) \ {k} |-> d[x]]

InsertOrReplace_PlainInsert(table, row) == table \cup {row}

\* INSERT OR REPLACE on a table whose PRIMARY KEY is cache_key
InsertOrReplace(table, row) ==
  {r \in table : r.cache_key # row.cache_key} \cup {row}

\* SELECT ... WHERE cache_key = ?
RowsOf(table, k) == {r \in table : r.cache_key = k}

\* cursor.fetchone()
FetchOne(table, k) == CHOOSE r \in RowsOf(table, k) : TRUE

UpdateHit_EveryRow(table, k) ==
  {[r EXCEPT !.hit_count = @ + 1] : r \in table}

\* UPDATE cache SET hit_count = hit_count + 1 WHERE cache_key = ?
UpdateHit(table, k) ==
  {IF r.cache_key = k THEN [r EXCEPT !.hit_count = @ + 1] ELSE r : r \in table}

(***************************************************************************)
(* Serialization of the core cache: json.dumps / json.loads.               *)
(***************************************************************************)
Serializable(v) == v # "obj"

JsonDumps(v) == IF v = "tup" THEN "json[lst]" ELSE "json[" \o v \o "]"

JsonLoads(s) == IF s = "json[lst]" THEN "lst" ELSE IF s = "json[rec]" THEN "rec" ELSE "obj"

(***************************************************************************)
(* Storage failures injected by the environment into one call: the         *)
(* database is unreachable or corrupt (sqlite3 raises).                    *)
(***************************************************************************)
NoFail == "none"
EnvFails == {"none", "storage"}

CoreCaught_DumpsOutsideTry(op, failure) == failure = "storage"

\* The failures that the try/except of a core operation encloses.
CoreCaught(op, failure) ==
  CASE op = "set"             -> failure \in {"storage", "serialization"}
    [] op = "get"             -> failure \in {"storage"}
    [] op = "delete"          -> failure \in {"storage"}
    [] op = "clear"           -> failure \in {"storage"}
    [] op = "cleanup_expired" -> failure \in {"storage"}
    [] op = "get_stats"       -> failure \in {"storage"}
    [] OTHER                  -> FALSE

EmptyStats == [total_entries |-> 0, valid_entries |-> 0, expired_entries |-> 0,
               total_hits |-> 0, memory_entries |-> 0]

\* The observation record of a call.  ret is the returned value ("raise"
\* when an exception reaches the caller); tier tells which branch of get
\* served the call; evicted lists the tiers from which the call dropped an
\* expired entry; existed tells whether the key was in some tier before.
InitOp ==
  [op |-> "init", key |-> None, val |-> None, ttl |-> 0, ret |-> None,
   tier |-> None, evicted |-> {}, existed |-> FALSE, fail |-> NoFail,
   stats |-> EmptyStats]

\* What a call hit by 'failure' returns: the handler's value if the failure
\* is caught by the operation's try/except, the exception otherwise.
Outcome(caught, handlerValue) == IF caught THEN handlerValue ELSE "raise"

InSomeTier(k) == k \in DOMAIN memory_cache \/ RowsOf(db, k) # {}

(***************************************************************************)
(* The clock.                                                              *)
(***************************************************************************)
Tick ==
  /\ now < MaxTime
  /\ now' = now + 1
  /\ UNCHANGED <<impl, memory_cache, db, lastOp, durableLost>>
  /\ UNCHANGED nonCacheVars

(***************************************************************************)
(* core CacheManager.__init__ : a new manager opened on the same database. *)
(***************************************************************************)
NewManager ==
  /\ impl = "core"
  /\ memory_cache # EmptyDict
  /\ memory_cache' = EmptyDict
  /\ lastOp' = InitOp
  /\ durableLost' = {}
  /\ UNCHANGED <<impl, now, db>>
  /\ UNCHANGED nonCacheVars

(***************************************************************************)
(* core CacheManager.set                                                   *)
(***************************************************************************)
SetFailure(data, env) ==
  IF env # NoFail THEN env
  ELSE IF ~Serializable(data) THEN "serialization"
  ELSE NoFail

MemEntry(data, expires_at, hit_count) ==
  [data |-> data, expires_at |-> expires_at, hit_count |-> hit_count]

DbRow(cache_key, data_str, expires_at, hit_count) ==
  [cache_key |-> cache_key, data |-> data_str, expires_at |-> expires_at,
   hit_count |-> hit_count]

Set_DurableFirst(cache_key, data, ttl_seconds, env) ==
  LET created_at == now
      expires_at == created_at + ttl_seconds
      failure    == SetFailure(data, env)
  IN
  /\ impl = "core"
  /\ memory_cache' = IF failure = NoFail
                     THEN DictPut(memory_cache, cache_key, MemEntry(data, expires_at, 0))
                     ELSE memory_cache
  /\ db' = IF failure = NoFail
           THEN InsertOrReplace(db, DbRow(cache_key, JsonDumps(data), expires_at, 0))
           ELSE db
  /\ lastOp' = [InitOp EXCEPT !.op = "set", !.key = cache_key, !.val = data,
                  !.ttl = ttl_seconds, !.existed = InSomeTier(cache_key),
                  !.fail = failure,
                  !.ret = IF failure = NoFail THEN "True"
                          ELSE Outcome(CoreCaught("set", failure), "False")]
  /\ durableLost' = IF failure = NoFail THEN durableLost \ {cache_key}
                    ELSE durableLost \cup {cache_key}
  /\ UNCHANGED <<impl, now>>
  /\ UNCHANGED nonCacheVars

Set(cache_key, data, ttl_seconds, env) ==
  LET created_at == now
      expires_at == created_at + ttl_seconds
      failure    == SetFailure(data, env)
  IN
  /\ impl = "core"
  /\ memory_cache' = DictPut(memory_cache, cache_key, MemEntry(data, expires_at, 0))
  /\ db' = IF failure = NoFail
           THEN InsertOrReplace(db, DbRow(cache_key, JsonDumps(data), expires_at, 0))
           ELSE db
  /\ lastOp' = [InitOp EXCEPT !.op = "set", !.key = cache_key, !.val = data,
                  !.ttl = ttl_seconds, !.existed = InSomeTier(cache_key),
                  !.fail = failure,
                  !.ret = IF failure = NoFail THEN "True"
                          ELSE Outcome(CoreCaught("set", failure), "False")]
  /\ durableLost' = IF failure = NoFail THEN durableLost \ {cache_key}
                    ELSE durableLost \cup {cache_key}
  /\ UNCHANGED <<impl, now>>
  /\ UNCHANGED nonCacheVars

(***************************************************************************)
(* core CacheManager.get                                                   *)
(***************************************************************************)
MemFresh_Inclusive(entry, current_time) == entry.expires_at >= current_time

MemFresh(entry, current_time) == entry.expires_at > current_time

RowFresh(row, current_time) == row.expires_at > current_time

Get_HitInBothTiers(cache_key, env) ==
  LET current_time == now
      inMem    == cache_key \in DOMAIN memory_cache
      memHit   == inMem /\ MemFresh(memory_cache[cache_key], current_time)
      expMem   == inMem /\ ~memHit
      mem1     == IF expMem THEN DictDel(memory_cache, cache_key) ELSE memory_cache
      lost1    == IF expMem THEN durableLost \ {cache_key} ELSE durableLost
      evMem    == IF expMem THEN {"memory"} ELSE {}
      found    == RowsOf(db, cache_key) # {}
      row      == FetchOne(db, cache_key)
      call     == [InitOp EXCEPT !.op = "get", !.key = cache_key,
                                 !.existed = InSomeTier(cache_key)]
  IN
  /\ impl = "core"
  /\ IF memHit
     THEN /\ env = NoFail
          /\ memory_cache[cache_key].hit_count <= MaxHits
          /\ memory_cache' = [memory_cache EXCEPT ![cache_key].hit_count = @ + 1]
          /\ db' = UpdateHit(db, cache_key)
          /\ durableLost' = durableLost
          /\ lastOp' = [call EXCEPT !.ret = memory_cache[cache_key].data,
                                    !.tier = "memory"]
     ELSE IF env # NoFail
     THEN /\ memory_cache' = mem1
          /\ db' = db
          /\ durableLost' = lost1
          /\ lastOp' = [call EXCEPT !.ret = Outcome(CoreCaught("get", env), None),
                                    !.tier = "error", !.fail = env, !.evicted = evMem]
     ELSE IF ~found
     THEN /\ memory_cache' = mem1
          /\ db' = db
          /\ durableLost' = lost1
          /\ lastOp' = [call EXCEPT !.tier = "absent", !.evicted = evMem]
     ELSE IF RowFresh(row, current_time)
     THEN /\ row.hit_count < MaxHits
          /\ db' = UpdateHit(db, cache_key)
          /\ memory_cache' = DictPut(mem1, cache_key,
                               MemEntry(JsonLoads(row.data), row.expires_at,
                                        row.hit_count + 1))
          /\ durableLost' = lost1
          /\ lastOp' = [call EXCEPT !.ret = JsonLoads(row.data), !.tier = "durable",
                                    !.evicted = evMem]
     ELSE /\ db' = db \ RowsOf(db, cache_key)
          /\ memory_cache' = mem1
          /\ durableLost' = lost1
          /\ lastOp' = [call EXCEPT !.tier = "absent",
                                    !.evicted = evMem \cup {"durable"}]
  /\ UNCHANGED <<impl, now>>
  /\ UNCHANGED nonCacheVars

Get(cache_key, env) ==
  LET current_time == now
      inMem    == cache_key \in DOMAIN memory_cache
      memHit   == inMem /\ MemFresh(memory_cache[cache_key], current_time)
      expMem   == inMem /\ ~memHit
      mem1     == IF expMem THEN DictDel(memory_cache, cache_key) ELSE memory_cache
      lost1    == IF expMem THEN durableLost \ {cache_key} ELSE durableLost
      evMem    == IF expMem THEN {"memory"} ELSE {}
      found    == RowsOf(db, cache_key) # {}
      row      == FetchOne(db, cache_key)
      call     == [InitOp EXCEPT !.op = "get", !.key = cache_key,
                                 !.existed = InSomeTier(cache_key)]
  IN
  /\ impl = "core"
  /\ IF memHit
     THEN /\ env = NoFail
          /\ memory_cache[cache_key].hit_count <= MaxHits
          /\ memory_cache' = [memory_cache EXCEPT ![cache_key].hit_count = @ + 1]
          /\ db' = db
          /\ durableLost' = durableLost
          /\ lastOp' = [call EXCEPT !.ret = memory_cache[cache_key].data,
                                    !.tier = "memory"]
     ELSE IF env # NoFail
     THEN /\ memory_cache' = mem1
          /\ db' = db
          /\ durableLost' = lost1
          /\ lastOp' = [call EXCEPT !.ret = Outcome(CoreCaught("get", env), None),
                                    !.tier = "error", !.fail = env, !.evicted = evMem]
     ELSE IF ~found
     THEN /\ memory_cache' = mem1
          /\ db' = db
          /\ durableLost' = lost1
          /\ lastOp' = [call EXCEPT !.tier = "absent", !.evicted = evMem]
     ELSE IF RowFresh(row, current_time)
     THEN /\ row.hit_count < MaxHits
          /\ db' = UpdateHit(db, cache_key)
          /\ memory_cache' = DictPut(mem1, cache_key,
                               MemEntry(JsonLoads(row.data), row.expires_at,
                                        row.hit_count + 1))
          /\ durableLost' = lost1
          /\ lastOp' = [call EXCEPT !.ret = JsonLoads(row.data), !.tier = "durable",
                                    !.evicted = evMem]
     ELSE /\ db' = db \ RowsOf(db, cache_key)
          /\ memory_cache' = mem1
          /\ durableLost' = lost1
          /\ lastOp' = [call EXCEPT !.tier = "absent",
                                    !.evicted = evMem \cup {"durable"}]
  /\ UNCHANGED <<impl, now>>
  /\ UNCHANGED nonCacheVars

(***************************************************************************)
(* core CacheManager.delete / clear / cleanup_expired / get_stats          *)
(***************************************************************************)
Delete_MemoryOnly(cache_key, env) ==
  /\ impl = "core"
  /\ memory_cache' = DictDel(memory_cache, cache_key)
  /\ db' = db
  /\ durableLost' = durableLost \ {cache_key}
  /\ lastOp' = [InitOp EXCEPT !.op = "delete", !.key = cache_key,
                  !.existed = InSomeTier(cache_key), !.fail = env,
                  !.ret = IF env = NoFail THEN None
                          ELSE Outcome(CoreCaught("delete", env), None)]
  /\ UNCHANGED <<impl, now>>
  /\ UNCHANGED nonCacheVars

Delete(cache_key, env) ==
  /\ impl = "core"
  /\ memory_cache' = DictDel(memory_cache, cache_key)
  /\ db' = IF env = NoFail THEN db \ RowsOf(db, cache_key) ELSE db
  /\ durableLost' = durableLost \ {cache_key}
  /\ lastOp' = [InitOp EXCEPT !.op = "delete", !.key = cache_key,
                  !.existed = InSomeTier(cache_key), !.fail = env,
                  !.ret = IF env = NoFail THEN None
                          ELSE Outcome(CoreCaught("delete", env), None)]
  /\ UNCHANGED <<impl, now>>
  /\ UNCHANGED nonCacheVars

Clear(env) ==
  /\ impl = "core"
  /\ memory_cache' = EmptyDict
  /\ db' = IF env = NoFail THEN {} ELSE db
  /\ durableLost' = {}
  /\ lastOp' = [InitOp EXCEPT !.op = "clear", !.fail = env,
                  !.existed = (memory_cache # EmptyDict \/ db # {}),
                  !.ret = IF env = NoFail THEN None
                          ELSE Outcome(CoreCaught("clear", env), None)]
  /\ UNCHANGED <<impl, now>>
  /\ UNCHANGED nonCacheVars

\* expired_keys = [k for k, v in memory_cache.items() if v['expires_at'] <= current_time]
ExpiredKeys(mem, current_time) ==
  {k \in DOMAIN mem : mem[k].expires_at <= current_time}

\* DELETE FROM cache WHERE expires_at <= ?
DeleteExpiredRows(table, current_time) ==
  {r \in table : ~(r.expires_at <= current_time)}

CleanupExpired_DurableOnly(env) ==
  /\ impl = "core"
  /\ memory_cache' = memory_cache
  /\ db' = IF env = NoFail THEN DeleteExpiredRows(db, now) ELSE db
  /\ durableLost' = durableLost
  /\ lastOp' = [InitOp EXCEPT !.op = "cleanup_expired", !.fail = env,
                  !.ret = IF env = NoFail THEN None
                          ELSE Outcome(CoreCaught("cleanup_expired", env), None)]
  /\ UNCHANGED <<impl, now>>
  /\ UNCHANGED nonCacheVars

CleanupExpired(env) ==
  LET current_time == now
      expired_keys == ExpiredKeys(memory_cache, current_time)
  IN
  /\ impl = "core"
  /\ memory_cache' = [k \in (DOMAIN memory_cache) \ expired_keys |-> memory_cache[k]]
  /\ db' = IF env = NoFail THEN DeleteExpiredRows(db, current_time) ELSE db
  /\ durableLost' = durableLost \ expired_keys
  /\ lastOp' = [InitOp EXCEPT !.op = "cleanup_expired", !.fail = env,
                  !.ret = IF env = NoFail THEN None
                          ELSE Outcome(CoreCaught("cleanup_expired", env), None)]
  /\ UNCHANGED <<impl, now>>
  /\ UNCHANGED nonCacheVars

RECURSIVE SumHits(_)
SumHits(table) ==
  IF table = {} THEN 0
  ELSE LET r == CHOOSE x \in table : TRUE
       IN r.hit_count + SumHits(table \ {r})

StatsOf(mem, table, current_time) ==
  LET total_entries == Cardinality(table)
      valid_entries == Cardinality({r \in table : r.expires_at > current_time})
  IN [total_entries   |-> total_entries,
      valid_entries   |-> valid_entries,
      expired_entries |-> total_entries - valid_entries,
      total_hits      |-> SumHits(table),
      memory_entries  |-> Cardinality(DOMAIN mem)]

GetStats(env) ==
  /\ impl = "core"
  /\ lastOp' = IF env = NoFail
               THEN [InitOp EXCEPT !.op = "get_stats", !.ret = "stats",
                                   !.stats = StatsOf(memory_cache, db, now)]
               ELSE [InitOp EXCEPT !.op = "get_stats", !.fail = env,
                                   !.ret = Outcome(CoreCaught("get_stats", env), "{}")]
  /\ UNCHANGED <<impl, now, memory_cache, db, durableLost>>
  /\ UNCHANGED nonCacheVars

(***************************************************************************)
(* Specification of the core cache.                                        *)
(***************************************************************************)
InitCache ==
  /\ now = 0
  /\ memory_cache = EmptyDict
  /\ db = {}
  /\ lastOp = InitOp
  /\ durableLost = {}

NoCallbackYet == [first |-> -1, last |-> -1, count |-> 0, mono |-> TRUE]

\* The orchestrator object as constructed: results = {}, nothing run.
OrchConstructed ==
  /\ pc = "idle"
  /\ modules_to_run = << >>
  /\ index = 0
  /\ results = EmptyDict
  /\ results_order = << >>
  /\ internal = 0
  /\ reports = 0
  /\ cb = NoCallbackYet
  /\ attempted = << >>
  /\ outcomes = << >>
  /\ runs = 0

OrchUnused ==
  /\ OrchConstructed
  /\ selected_modules = << >>
  /\ has_callback = FALSE
  /\ run_limit = 0

Threads == {"t1", "t2"}

\* A thread that is in no operation of the manager
IdleThread ==
  [op |-> None, pc |-> "idle", ret |-> None, total_entries |-> 0, memory_entries |-> 0]

\* the names under which scan() files the three tasks
ScanModules == {"Web App Risk", "Security Config", "OWASP Coverage"}

\* WebSecurityScanner.__init__ : results = {}, nothing submitted
NewScanner ==
  [pc |-> "idle", futures |-> [m \in ScanModules |-> "unsubmitted"],
   outcome |-> [m \in ScanModules |-> None], yielded |-> {},
   results |-> EmptyDict, results_order |-> << >>, total_findings |-> << >>]

\* the two modules that keep a global cache instance
CacheModules == {"core", "utils"}

\* A caller that is not inside get_cache_manager / get_api_cacher
IdleCaller == [pc |-> "idle", module |-> None, made |-> 0, got |-> 0]

\* _global_cache = None ; _cache_manager = None  (0 stands for None, the
\* instances of a module are numbered from 1 in the order of construction)
ModulesLoaded ==
  [global |-> [m \in CacheModules |-> 0], created |-> [m \in CacheModules |-> 0],
   returned |-> [m \in CacheModules |-> {}], callers |-> [t \in Threads |-> IdleCaller]]

OthersUnused ==
  /\ slice = << >>
  /\ lock = "free"
  /\ threads = [t \in Threads |-> IdleThread]
  /\ scan = NewScanner
  /\ singleton = ModulesLoaded

\* No key derived, no HTTP call cached, no risk calculated.
CallsUnused ==
  /\ keygen = << >>
  /\ http = << >>
  /\ risk = << >>
  /\ OthersUnused

Init ==
  /\ impl = "core"
  /\ InitCache
  /\ OrchUnused
  /\ CallsUnused

SetAny == \E a \in SetArgs, e \in EnvFails : Set(a[1], a[2], a[3], e)

GetAny == \E k \in Keys, e \in EnvFails : Get(k, e)

DeleteAny == \E k \in Keys, e \in EnvFails : Delete(k, e)

ClearAny == \E e \in EnvFails : Clear(e)

CleanupAny == \E e \in EnvFails : CleanupExpired(e)

GetStatsAny == \E e \in EnvFails : GetStats(e)

Next ==
  \/ Tick
  \/ NewManager
  \/ SetAny
  \/ GetAny
  \/ DeleteAny
  \/ ClearAny
  \/ CleanupAny
  \/ GetStatsAny

Spec == Init /\ [][Next]_vars

(***************************************************************************)
(* core/utils/cache_manager.py : the utils CacheManager.  Values are       *)
(* pickled; expires_at is kept as a datetime in memory and as its          *)
(* isoformat() text in the table (column 'key' is modelled as cache_key).  *)
(***************************************************************************)
Picklable(v) == v # "obj"

PickleDumps(v) == "pickle[" \o v \o "]"

\* requests.Response objects that get_cached_response stores: one with
\* status 200 and one with status 404
Responses == {"resp200", "resp404"}

PickleLoads(b) == CHOOSE v \in Values \cup Responses : PickleDumps(v) = b

\* datetime.isoformat(): fixed-width text, here the two decimal digits
IsoFormat(t) == <<t \div 10, t % 10>>

\* datetime.fromisoformat()
FromIsoFormat(text) == text[1] * 10 + text[2]

\* SQLite compares the stored text with the text parameter byte by byte
TextLess(a, b) == a[1] < b[1] \/ (a[1] = b[1] /\ a[2] < b[2])

UEntry(value, expires_at) == [value |-> value, expires_at |-> expires_at]

URow(key, value_bytes, expires_text) ==
  [cache_key |-> key, value |-> value_bytes, expires_at |-> expires_text]

\* The failures that the try/except of a utils operation encloses.
UtilsCaught(op, failure) ==
  CASE op = "set"             -> failure \in {"storage", "serialization"}
    [] op = "get"             -> failure \in {"storage"}
    [] op = "delete"          -> failure \in {"storage"}
    [] op = "clear"           -> failure \in {"storage"}
    [] op = "cleanup_expired" -> failure \in {"storage"}
    [] OTHER                  -> FALSE

UNewManager ==
  /\ impl = "utils"
  /\ memory_cache # EmptyDict
  /\ memory_cache' = EmptyDict
  /\ lastOp' = InitOp
  /\ UNCHANGED <<impl, now, db, durableLost>>
  /\ UNCHANGED nonCacheVars

USetFailure(value, env) ==
  IF env # NoFail THEN env
  ELSE IF ~Picklable(value) THEN "serialization"
  ELSE NoFail

USet(key, value, ttl, env) ==
  LET expires_at == now + ttl
      failure    == USetFailure(value, env)
  IN
  /\ impl = "utils"
  /\ memory_cache' = DictPut(memory_cache, key, UEntry(value, expires_at))
  /\ db' = IF failure = NoFail
           THEN InsertOrReplace(db, URow(key, PickleDumps(value), IsoFormat(expires_at)))
           ELSE db
  /\ lastOp' = [InitOp EXCEPT !.op = "set", !.key = key, !.val = value, !.ttl = ttl,
                  !.existed = InSomeTier(key), !.fail = failure,
                  !.ret = IF failure = NoFail THEN None
                          ELSE Outcome(UtilsCaught("set", failure), None)]
  /\ UNCHANGED <<impl, now, durableLost>>
  /\ UNCHANGED nonCacheVars

UGet(key, env) ==
  LET inMem  == key \in DOMAIN memory_cache
      memHit == inMem /\ now < memory_cache[key].expires_at
      expMem == inMem /\ ~memHit
      mem1   == IF expMem THEN DictDel(memory_cache, key) ELSE memory_cache
      evMem  == IF expMem THEN {"memory"} ELSE {}
      found  == RowsOf(db, key) # {}
      row    == FetchOne(db, key)
      call   == [InitOp EXCEPT !.op = "get", !.key = key, !.existed = InSomeTier(key)]
  IN
  /\ impl = "utils"
  /\ IF memHit
     THEN /\ env = NoFail
          /\ memory_cache' = memory_cache
          /\ db' = db
          /\ lastOp' = [call EXCEPT !.ret = memory_cache[key].value, !.tier = "memory"]
     ELSE IF env # NoFail
     THEN /\ memory_cache' = mem1
          /\ db' = db
          /\ lastOp' = [call EXCEPT !.ret = Outcome(UtilsCaught("get", env), None),
                                    !.tier = "error", !.fail = env, !.evicted = evMem]
     ELSE IF ~found
     THEN /\ memory_cache' = mem1
          /\ db' = db
          /\ lastOp' = [call EXCEPT !.tier = "absent", !.evicted = evMem]
     ELSE IF now < FromIsoFormat(row.expires_at)
     THEN /\ db' = db
          /\ memory_cache' = DictPut(mem1, key,
                               UEntry(PickleLoads(row.value), FromIsoFormat(row.expires_at)))
          /\ lastOp' = [call EXCEPT !.ret = PickleLoads(row.value), !.tier = "durable",
                                    !.evicted = evMem]
     ELSE \* self._delete_expired(key)
          /\ db' = db \ RowsOf(db, key)
          /\ memory_cache' = mem1
          /\ lastOp' = [call EXCEPT !.tier = "absent", !.evicted = evMem \cup {"durable"}]
  /\ UNCHANGED <<impl, now, durableLost>>
  /\ UNCHANGED nonCacheVars

UDelete(key, env) ==
  /\ impl = "utils"
  /\ memory_cache' = DictDel(memory_cache, key)
  /\ db' = IF env = NoFail THEN db \ RowsOf(db, key) ELSE db
  /\ lastOp' = [InitOp EXCEPT !.op = "delete", !.key = key,
                  !.existed = InSomeTier(key), !.fail = env,
                  !.ret = IF env = NoFail THEN None
                          ELSE Outcome(UtilsCaught("delete", env), None)]
  /\ UNCHANGED <<impl, now, durableLost>>
  /\ UNCHANGED nonCacheVars

UClear(env) ==
  /\ impl = "utils"
  /\ memory_cache' = EmptyDict
  /\ db' = IF env = NoFail THEN {} ELSE db
  /\ lastOp' = [InitOp EXCEPT !.op = "clear", !.fail = env,
                  !.existed = (memory_cache # EmptyDict \/ db # {}),
                  !.ret = IF env = NoFail THEN None
                          ELSE Outcome(UtilsCaught("clear", env), None)]
  /\ UNCHANGED <<impl, now, durableLost>>
  /\ UNCHANGED nonCacheVars

\* if datetime.utcnow() >= item['expires_at']: expired_keys.append(key)
UExpiredKeys(mem, current_time) ==
  {k \in DOMAIN mem : current_time >= mem[k].expires_at}

\* DELETE FROM cache WHERE expires_at < ?   (? = utcnow().isoformat())
UDeleteExpiredRows(table, now_text) ==
  {r \in table : ~TextLess(r.expires_at, now_text)}

UCleanupExpired(env) ==
  LET expired_keys == UExpiredKeys(memory_cache, now)
  IN
  /\ impl = "utils"
  /\ memory_cache' = [k \in (DOMAIN memory_cache) \ expired_keys |-> memory_cache[k]]
  /\ db' = IF env = NoFail THEN UDeleteExpiredRows(db, IsoFormat(now)) ELSE db
  /\ lastOp' = [InitOp EXCEPT !.op = "cleanup_expired", !.fail = env,
                  !.existed = (expired_keys # {}),
                  !.ret = IF env = NoFail THEN None
                          ELSE Outcome(UtilsCaught("cleanup_expired", env), None)]
  /\ UNCHANGED <<impl, now, durableLost>>
  /\ UNCHANGED nonCacheVars

(***************************************************************************)
(* Specifications of the utils cache, and of a cache of either class.      *)
(***************************************************************************)
InitUtils ==
  /\ impl = "utils"
  /\ InitCache
  /\ OrchUnused
  /\ CallsUnused

USetAny == \E a \in SetArgs, e \in EnvFails : USet(a[1], a[2], a[3], e)

UGetAny == \E k \in Keys, e \in EnvFails : UGet(k, e)

UDeleteAny == \E k \in Keys, e \in EnvFails : UDelete(k, e)

UClearAny == \E e \in EnvFails : UClear(e)

UCleanupAny == \E e \in EnvFails : UCleanupExpired(e)

NextUtils ==
  \/ Tick
  \/ UNewManager
  \/ USetAny
  \/ UGetAny
  \/ UDeleteAny
  \/ UClearAny
  \/ UCleanupAny

SpecUtils == InitUtils /\ [][NextUtils]_vars

InitCaches ==
  /\ impl \in {"core", "utils"}
  /\ InitCache
  /\ OrchUnused
  /\ CallsUnused

NextCaches ==
  \/ Tick
  \/ NewManager
  \/ SetAny
  \/ GetAny
  \/ DeleteAny
  \/ ClearAny
  \/ CleanupAny
  \/ GetStatsAny
  \/ UNewManager
  \/ USetAny
  \/ UGetAny
  \/ UDeleteAny
  \/ UClearAny
  \/ UCleanupAny

SpecCaches == InitCaches /\ [][NextCaches]_vars

(***************************************************************************)
(* core/orchestrator.py : ScanOrchestrator.run_scan                        *)
(***************************************************************************)
\* keys of module_map
ModuleMap == {"identity_infra", "security_config", "threat_intel",
              "web_app_risk", "behavioral"}

\* str.strip() on the fields that occur in the selections
Strip(m) == IF m = " security_config " THEN "security_config" ELSE m

\* The selection strings given to the constructor, split at the commas
\* ("" and None give no field at all).
Selections ==
  { << >>,
    <<"bogus">>,
    <<"identity_infra">>,
    <<"identity_infra", "identity_infra">>,
    <<"bogus", " security_config ", "", "identity_infra">>,
    <<"identity_infra", "security_config", "threat_intel">>,
    <<"identity_infra", "security_config", "identity_infra", "security_config">> }

Range(seq) == {seq[i] : i \in DOMAIN seq}

Filter_NoRegistryCheck(fields) == [i \in DOMAIN fields |-> Strip(fields[i])]

\* modules_to_run = [m.strip() for m in modules_to_run if m.strip() in module_map]
Filter(fields) ==
  LET InMap(m) == Strip(m) \in ModuleMap
      kept     == SelectSeq(fields, InMap)
  IN [i \in DOMAIN kept |-> Strip(kept[i])]

TECH_DETECTION_START == 0
TECH_DETECTION_END == 5
MODULES_START == 5
MODULES_END == 95
FINALIZING_START == 95
FINALIZING_END == 100

\* Percentages a module passes to its sub-callback
InternalPcts == {0, 33, 100}

SubPct_SliceOfNext(i, N, p) ==
  MODULES_START + ((MODULES_END - MODULES_START) * (100 * (i + 1) + p)) \div (100 * N)

\* overall_pct = int(s_pct + (module_internal_pct / 100.0) * (e_pct - s_pct)) with
\* s_pct = 5 + i * 90 / N and e_pct = 5 + (i + 1) * 90 / N, in exact arithmetic
\* (the float computation gives the same integers for N <= 8 and p in 0..100).
SubPct(i, N, p) ==
  MODULES_START + ((MODULES_END - MODULES_START) * (100 * i + p)) \div (100 * N)

\* progress_callback(percent, message), when one was given
Call(rec, percent) ==
  IF ~has_callback THEN rec
  ELSE [first |-> IF rec.count = 0 THEN percent ELSE rec.first,
        last  |-> percent,
        count |-> rec.count + 1,
        mono  |-> rec.mono /\ (rec.count = 0 \/ rec.last <= percent)]

\* Values stored in self.results.  shape: "dict" | "none" (the value None);
\* fkind tells what the dict holds under 'findings': a list, nothing, or None.
Result(shape, status, error, fkind, findings, technologies) ==
  [shape |-> shape, status |-> status, error |-> error, fkind |-> fkind,
   findings |-> findings, technologies |-> technologies,
   modules_executed |-> << >>, total_findings |-> 0]

\* {"status": "error", "error": str(e), "findings": []}
ErrorResult(message) == Result("dict", "error", message, "list", << >>, << >>)

\* What a module does when constructed and executed.
ModuleOutcomes ==
  {"ok_empty", "ok_findings", "raise_init", "raise_execute",
   "returns_none", "findings_none"}

Raises(outcome) == outcome \in {"raise_init", "raise_execute"}

WellFormed(outcome) == outcome \in {"ok_empty", "ok_findings"}

\* a longer findings list, as the modules of the parallel scanner return
ManyFindings == <<"f1", "f1", "f1", "f1", "f3", "f4", "f5", "f6">>

\* The value module.execute() returns
Returned(outcome) ==
  CASE outcome = "ok_empty"      -> Result("dict", "ok", None, "list", << >>, << >>)
    [] outcome = "ok_findings"   -> Result("dict", "ok", None, "list", <<"f1", "f2">>, << >>)
    [] outcome = "returns_none"  -> Result("none", None, None, "missing", << >>, << >>)
    [] outcome = "findings_none" -> Result("dict", "ok", None, "none", << >>, << >>)
    [] outcome = "ok_many"       -> Result("dict", "ok", None, "list", ManyFindings, << >>)

ExceptionMessage(outcome) ==
  IF outcome = "raise_init" THEN "init failed" ELSE "execute failed"

\* self.results[key] = value
Store(key, value) ==
  /\ results' = DictPut(results, key, value)
  /\ results_order' = IF key \in DOMAIN results THEN results_order
                      ELSE Append(results_order, key)

RunScan ==
  /\ pc \in {"idle", "done"}
  /\ runs < run_limit
  /\ runs' = runs + 1
  /\ modules_to_run' = Filter(selected_modules)
  /\ index' = 0
  /\ internal' = 0
  /\ reports' = 0
  /\ attempted' = << >>
  /\ outcomes' = << >>
  /\ cb' = Call(NoCallbackYet, TECH_DETECTION_START)
  /\ pc' = "tech"
  /\ UNCHANGED <<selected_modules, has_callback, results, results_order, run_limit>>
  /\ UNCHANGED nonOrchVars

TechDetection_AbortOnRaise(raises) ==
  /\ pc = "tech"
  /\ IF raises
     THEN /\ pc' = "crashed"
          /\ UNCHANGED <<results, results_order, cb>>
     ELSE /\ Store("tech_stack", Result("dict", None, None, "missing", << >>, <<"nginx">>))
          /\ cb' = Call(cb, TECH_DETECTION_END)
          /\ pc' = "loop"
  /\ UNCHANGED <<selected_modules, has_callback, modules_to_run, index, internal,
                 reports, attempted, outcomes, runs, run_limit>>
  /\ UNCHANGED nonOrchVars

TechDetection(raises) ==
  /\ pc = "tech"
  /\ Store("tech_stack",
           IF raises
           THEN Result("dict", None, "tech failed", "missing", << >>, << >>)
           ELSE Result("dict", None, None, "missing", << >>, <<"nginx">>))
  /\ cb' = Call(cb, TECH_DETECTION_END)
  /\ pc' = "loop"
  /\ UNCHANGED <<selected_modules, has_callback, modules_to_run, index, internal,
                 reports, attempted, outcomes, runs, run_limit>>
  /\ UNCHANGED nonOrchVars

ModuleStart_SliceOfSelection ==
  /\ pc = "loop"
  /\ index < Len(modules_to_run)
  /\ cb' = Call(cb, SubPct(index, Len(selected_modules), 0))
  /\ internal' = 0
  /\ reports' = 0
  /\ pc' = "exec"
  /\ UNCHANGED <<selected_modules, has_callback, modules_to_run, index, results,
                 results_order, attempted, outcomes, runs, run_limit>>
  /\ UNCHANGED nonOrchVars

\* sub_cb(0, "Starting...")
ModuleStart ==
  /\ pc = "loop"
  /\ index < Len(modules_to_run)
  /\ cb' = Call(cb, SubPct(index, Len(modules_to_run), 0))
  /\ internal' = 0
  /\ reports' = 0
  /\ pc' = "exec"
  /\ UNCHANGED <<selected_modules, has_callback, modules_to_run, index, results,
                 results_order, attempted, outcomes, runs, run_limit>>
  /\ UNCHANGED nonOrchVars

\* the running module calls progress_callback(p, msg), i.e. sub_cb
ModuleProgress(p) ==
  /\ pc = "exec"
  /\ reports < MaxReports
  /\ p >= internal
  /\ cb' = Call(cb, SubPct(index, Len(modules_to_run), p))
  /\ internal' = p
  /\ reports' = reports + 1
  /\ UNCHANGED <<selected_modules, has_callback, pc, modules_to_run, index, results,
                 results_order, attempted, outcomes, runs, run_limit>>
  /\ UNCHANGED nonOrchVars

ModuleEnds_AbortOnRaise(outcome) ==
  LET module_key == modules_to_run[index + 1]
  IN
  /\ pc = "exec"
  /\ outcome = "raise_init" => reports = 0
  /\ Store(module_key,
           IF Raises(outcome) THEN ErrorResult(ExceptionMessage(outcome))
           ELSE Returned(outcome))
  /\ attempted' = Append(attempted, module_key)
  /\ outcomes' = Append(outcomes, outcome)
  /\ cb' = Call(cb, SubPct(index, Len(modules_to_run), 100))
  /\ index' = index + 1
  /\ pc' = IF Raises(outcome) THEN "crashed" ELSE "loop"
  /\ UNCHANGED <<selected_modules, has_callback, modules_to_run, internal, reports,
                 runs, run_limit>>
  /\ UNCHANGED nonOrchVars

\* the try block of the loop body ends: the module returned or raised;
\* then sub_cb(100, "Completed")
ModuleEnds(outcome) ==
  LET module_key == modules_to_run[index + 1]
  IN
  /\ pc = "exec"
  /\ outcome = "raise_init" => reports = 0
  /\ Store(module_key,
           IF Raises(outcome) THEN ErrorResult(ExceptionMessage(outcome))
           ELSE Returned(outcome))
  /\ attempted' = Append(attempted, module_key)
  /\ outcomes' = Append(outcomes, outcome)
  /\ cb' = Call(cb, SubPct(index, Len(modules_to_run), 100))
  /\ index' = index + 1
  /\ pc' = "loop"
  /\ UNCHANGED <<selected_modules, has_callback, modules_to_run, internal, reports,
                 runs, run_limit>>
  /\ UNCHANGED nonOrchVars

IsDict(r) == r.shape = "dict"

\* len(r.get("findings", [])) if isinstance(r, dict) else 0
FindingsLen(r) ==
  IF IsDict(r) THEN (IF r.fkind = "list" THEN Len(r.findings) ELSE 0) ELSE 0

\* len(None) raises TypeError while the metadata is computed
LenRaises(r) == IsDict(r) /\ r.fkind = "none"

RECURSIVE SumFindings(_, _)
SumFindings(res, keys) ==
  IF keys = {} THEN 0
  ELSE LET k == CHOOSE x \in keys : TRUE
       IN FindingsLen(res[k]) + SumFindings(res, keys \ {k})

Metadata(res, order) ==
  [Result("dict", None, None, "missing", << >>, << >>)
     EXCEPT !.modules_executed = order,
            !.total_findings = SumFindings(res, DOMAIN res)]

\* progress 95, self.results["metadata"] = {...}, progress 100, return
Finalize ==
  /\ pc = "loop"
  /\ index = Len(modules_to_run)
  /\ IF \E k \in DOMAIN results : LenRaises(results[k])
     THEN /\ cb' = Call(cb, FINALIZING_START)
          /\ pc' = "crashed"
          /\ UNCHANGED <<results, results_order>>
     ELSE /\ Store("metadata", Metadata(results, results_order))
          /\ cb' = Call(Call(cb, FINALIZING_START), FINALIZING_END)
          /\ pc' = "done"
  /\ UNCHANGED <<selected_modules, has_callback, modules_to_run, index, internal,
                 reports, attempted, outcomes, runs, run_limit>>
  /\ UNCHANGED nonOrchVars

InitOrch ==
  /\ impl = "core"
  /\ InitCache
  /\ OrchConstructed
  /\ selected_modules \in Selections
  /\ has_callback \in BOOLEAN
  /\ run_limit = 1
  /\ CallsUnused

TechDetectionAny == \E raises \in BOOLEAN : TechDetection(raises)

ModuleProgressAny == \E p \in InternalPcts : ModuleProgress(p)

ModuleEndsAny == \E outcome \in ModuleOutcomes : ModuleEnds(outcome)

NextOrch ==
  \/ RunScan
  \/ TechDetectionAny
  \/ ModuleStart
  \/ ModuleProgressAny
  \/ ModuleEndsAny
  \/ Finalize

SpecOrch == InitOrch /\ [][NextOrch]_vars

\* run_scan is straight-line code on one thread: each of its steps is taken
\* once it is reached, and every module's execute is assumed to terminate.
SpecOrchFair ==
  /\ SpecOrch
  /\ WF_vars(TechDetectionAny)
  /\ WF_vars(ModuleStart)
  /\ WF_vars(ModuleEndsAny)
  /\ WF_vars(Finalize)

(***************************************************************************)
(* Steps of the operations, as seen on a pair of states.  Every operation  *)
(* leaves the clock alone and overwrites lastOp with its own observation.  *)
(***************************************************************************)
OpStep(op, k) == now' = now /\ lastOp'.op = op /\ lastOp'.key = k

PrevOp(op, k) == lastOp.op = op /\ lastOp.key = k

EntryCount(table, k) == Cardinality(RowsOf(table, k))

(***************************************************************************)
(* C1: for every ttl > 0, set(k, v, ttl) followed by get(k) before any     *)
(* time passes returns v; once the clock has advanced by at least ttl (and *)
(* both calls reached the durable tier) get(k) returns None and the entry  *)
(* is gone from both tiers, so get_stats no longer counts it.              *)
(***************************************************************************)
C1_SetThenGet ==
  [][\A k \in Keys :
       (PrevOp("set", k) /\ OpStep("get", k) /\ k \in DOMAIN memory_cache) =>
         LET e == memory_cache[k] IN
         /\ (e.expires_at = now + lastOp.ttl) => lastOp'.ret = lastOp.val
         /\ (now >= e.expires_at /\ lastOp.fail = NoFail /\ lastOp'.fail = NoFail) =>
              /\ lastOp'.ret = None
              /\ k \notin DOMAIN memory_cache'
              /\ RowsOf(db', k) = {}
              /\ StatsOf(memory_cache', db', now').total_entries
                   = Cardinality(db \ RowsOf(db, k))
              /\ StatsOf(memory_cache', db', now').memory_entries
                   = Cardinality((DOMAIN memory_cache) \ {k})
    ]_vars

C1_Witness ==
  /\ lastOp.op = "get"
  /\ lastOp.ret = None
  /\ lastOp.fail = NoFail
  /\ lastOp.evicted = {"memory", "durable"}
  /\ ~InSomeTier(lastOp.key)

(***************************************************************************)
(* C5: a set(k, v2, ttl2) that reaches the durable tier, on a key that     *)
(* already exists, replaces the entry in both tiers: value v2 (its JSON    *)
(* text in the durable tier), expires_at = now + ttl2, hit_count = 0; no   *)
(* tier holds more than one entry per key.                                 *)
(***************************************************************************)
C5_SetReplaces ==
  [][\A k \in Keys :
       (OpStep("set", k) /\ lastOp'.ret = "True" /\ InSomeTier(k)) =>
         /\ k \in DOMAIN memory_cache'
         /\ memory_cache'[k] = MemEntry(lastOp'.val, now + lastOp'.ttl, 0)
         /\ RowsOf(db', k) = {DbRow(k, JsonDumps(lastOp'.val), now + lastOp'.ttl, 0)}
         /\ \A j \in Keys : EntryCount(db', j) <= 1
    ]_vars

C5_Witness ==
  /\ lastOp.op = "set"
  /\ lastOp.ret = "True"
  /\ lastOp.existed
  /\ lastOp.key \in DOMAIN memory_cache
  /\ memory_cache[lastOp.key].hit_count = 0
  /\ memory_cache[lastOp.key].data = "tup"

(***************************************************************************)
(* C6: a get(k) that misses the in-memory tier and finds an unexpired      *)
(* durable row returns the row's decoded value, adds exactly 1 to the      *)
(* row's hit_count and promotes the entry with the row's expires_at; the   *)
(* next get(k) before expiry is served from the in-memory tier.            *)
(***************************************************************************)
C6_Promotion ==
  [][\A k \in Keys :
       /\ ( /\ OpStep("get", k)
            /\ lastOp'.fail = NoFail
            /\ ~(k \in DOMAIN memory_cache /\ memory_cache[k].expires_at > now)
            /\ RowsOf(db, k) # {}
            /\ FetchOne(db, k).expires_at > now ) =>
              LET row == FetchOne(db, k) IN
              /\ lastOp'.ret = JsonLoads(row.data)
              /\ lastOp'.tier = "durable"
              /\ RowsOf(db', k) = {[row EXCEPT !.hit_count = row.hit_count + 1]}
              /\ \A j \in Keys \ {k} : RowsOf(db', j) = RowsOf(db, j)
              /\ k \in DOMAIN memory_cache'
              /\ memory_cache'[k].data = JsonLoads(row.data)
              /\ memory_cache'[k].expires_at = row.expires_at
       /\ ( /\ PrevOp("get", k) /\ lastOp.tier = "durable"
            /\ OpStep("get", k)
            /\ k \in DOMAIN memory_cache
            /\ now < memory_cache[k].expires_at ) =>
              /\ lastOp'.tier = "memory"
              /\ lastOp'.ret = memory_cache[k].data
              /\ db' = db
    ]_vars

C6_Witness ==
  /\ lastOp.op = "get"
  /\ lastOp.tier = "durable"
  /\ lastOp.ret = "lst"
  /\ lastOp.key \in DOMAIN memory_cache
  /\ RowsOf(db, lastOp.key) # {}
  /\ FetchOne(db, lastOp.key).hit_count = 1
  /\ memory_cache[lastOp.key].expires_at = FetchOne(db, lastOp.key).expires_at

(***************************************************************************)
(* C7: when the durable write inside set(k, v, ttl) fails, the in-memory   *)
(* write is kept: until expiry, and until a delete, clear or overwrite of  *)
(* k, every get(k) of the same process returns v.                          *)
(***************************************************************************)
C7_MemoryKeptOnDurableFailure ==
  [][\A k \in Keys :
       /\ (OpStep("set", k) /\ lastOp'.fail # NoFail) =>
             /\ k \in durableLost'
             /\ k \in DOMAIN memory_cache'
             /\ memory_cache'[k].data = lastOp'.val
             /\ memory_cache'[k].expires_at = now + lastOp'.ttl
       /\ (k \in durableLost /\ k \in durableLost' /\ ~OpStep("set", k)) =>
             /\ k \in DOMAIN memory_cache /\ k \in DOMAIN memory_cache'
             /\ memory_cache'[k].data = memory_cache[k].data
             /\ memory_cache'[k].expires_at = memory_cache[k].expires_at
       /\ (OpStep("get", k) /\ k \in durableLost /\ k \in DOMAIN memory_cache
             /\ now < memory_cache[k].expires_at) =>
             lastOp'.ret = memory_cache[k].data
    ]_vars

C7_Witness ==
  /\ lastOp.op = "get"
  /\ lastOp.key \in durableLost
  /\ lastOp.tier = "memory"
  /\ lastOp.ret = "obj"
  /\ RowsOf(db, lastOp.key) # {}

(***************************************************************************)
(* C9: with a working durable tier, delete(k) leaves k in neither tier, a  *)
(* following get(k) returns None, and every other key's entry is unchanged *)
(* in both tiers; clear() empties both tiers.                              *)
(***************************************************************************)
C9_DeleteAndClear ==
  [][\A k \in Keys :
       /\ (OpStep("delete", k) /\ lastOp'.fail = NoFail) =>
             /\ k \notin DOMAIN memory_cache'
             /\ RowsOf(db', k) = {}
             /\ \A j \in Keys \ {k} :
                  /\ (j \in DOMAIN memory_cache) = (j \in DOMAIN memory_cache')
                  /\ j \in DOMAIN memory_cache => memory_cache'[j] = memory_cache[j]
                  /\ RowsOf(db', j) = RowsOf(db, j)
       /\ (PrevOp("delete", k) /\ lastOp.fail = NoFail /\ OpStep("get", k)) =>
             lastOp'.ret = None
       /\ (now' = now /\ lastOp'.op = "clear" /\ lastOp'.fail = NoFail) =>
             (memory_cache' = EmptyDict /\ db' = {})
    ]_vars

C9_Witness ==
  /\ lastOp.op = "delete"
  /\ lastOp.fail = NoFail
  /\ lastOp.existed
  /\ ~InSomeTier(lastOp.key)
  /\ \E j \in Keys \ {lastOp.key} : j \in DOMAIN memory_cache /\ RowsOf(db, j) # {}

(***************************************************************************)
(* C8: no storage-layer failure (durable tier unreachable or corrupt,      *)
(* serialization error) escapes a cache operation: the call does not       *)
(* raise; under such a failure get returns None, set returns False (core)  *)
(* or None (utils), delete / clear / cleanup_expired return None.          *)
(***************************************************************************)
C8_NoFailureEscapes ==
  /\ lastOp.ret # "raise"
  /\ (lastOp.fail # NoFail /\ lastOp.op \in {"get", "set", "delete", "clear", "cleanup_expired"}) =>
        lastOp.ret = IF lastOp.op = "set" /\ impl = "core" THEN "False" ELSE None

C8_Witness ==
  /\ impl = "core"
  /\ lastOp.op = "set"
  /\ lastOp.fail = "serialization"
  /\ lastOp.ret = "False"
  /\ lastOp.key \in DOMAIN memory_cache

(***************************************************************************)
(* C10: cleanup_expired() run at time now, with a working durable tier,    *)
(* removes from both tiers every entry with expires_at <= now (an entry    *)
(* with expires_at = now included) and leaves every entry with             *)
(* expires_at > now unchanged, in the core and in the utils CacheManager.  *)
(***************************************************************************)
RowExpiry(r) == IF impl = "core" THEN r.expires_at ELSE FromIsoFormat(r.expires_at)

C10_CleanupSweepsBothTiers ==
  [][(now' = now /\ lastOp'.op = "cleanup_expired" /\ lastOp'.fail = NoFail) =>
        /\ DOMAIN memory_cache' = {k \in DOMAIN memory_cache : memory_cache[k].expires_at > now}
        /\ \A k \in DOMAIN memory_cache' : memory_cache'[k] = memory_cache[k]
        /\ db' = {r \in db : RowExpiry(r) > now}
    ]_vars

(***************************************************************************)
(* Claims about ScanOrchestrator.run_scan, checked under SpecOrch.         *)
(***************************************************************************)

\* C2: when constructing or executing a selected module raises, the entry
\* stored under that module's id is {status: "error", error: <message>,
\* findings: []}, the loop goes on with the next module, and when run_scan
\* has left the loop every module of the filtered selection was attempted,
\* in order, whatever the earlier ones did.
C2_FailureIsolated ==
  /\ [][(pc = "exec" /\ pc' # "exec") =>
          LET module_key == modules_to_run[index + 1]
              outcome    == outcomes'[Len(outcomes')]
          IN
          /\ pc' = "loop"
          /\ index' = index + 1
          /\ attempted' = SubSeq(modules_to_run, 1, index + 1)
          /\ Raises(outcome) =>
               /\ module_key \in DOMAIN results'
               /\ results'[module_key].shape = "dict"
               /\ results'[module_key].status = "error"
               /\ results'[module_key].error = ExceptionMessage(outcome)
               /\ results'[module_key].fkind = "list"
               /\ results'[module_key].findings = << >>
       ]_vars
  /\ [](pc \in {"done", "crashed"} => attempted = modules_to_run)

C2_Witness ==
  /\ pc = "done"
  /\ \E i \in DOMAIN outcomes :
       /\ Raises(outcomes[i])
       /\ i < Len(outcomes)
       /\ results[attempted[i]].status = "error"
       /\ results[attempted[i]].findings = << >>
       /\ \E j \in (i + 1)..Len(outcomes) : WellFormed(outcomes[j])

SelectedRegistered == {Strip(m) : m \in Range(selected_modules)} \cap ModuleMap

\* C4 as stated: when run_scan returns, results has as many entries as the
\* filtered selection has modules.
C4_LenEqualsFilteredSelection ==
  pc = "done" => Cardinality(DOMAIN results) = Len(modules_to_run)

\* C4, amended: when run_scan returns, the keys of results are the distinct
\* ids of the filtered selection together with 'tech_stack' and 'metadata',
\* whether the modules succeeded or failed; so len(results) is the number of
\* distinct filtered ids plus two.
C4_OneEntryPerDistinctModule ==
  pc = "done" =>
    /\ DOMAIN results = SelectedRegistered \cup {"tech_stack", "metadata"}
    /\ Cardinality(DOMAIN results) = Cardinality(SelectedRegistered) + 2
    /\ Range(modules_to_run) = SelectedRegistered

C4_Witness ==
  /\ pc = "done"
  /\ Len(modules_to_run) = 4
  /\ Cardinality(DOMAIN results) = 4
  /\ \E i \in DOMAIN outcomes : Raises(outcomes[i])
  /\ "bogus" \notin DOMAIN results

(***************************************************************************)
(* core/cache_manager.py : APICallCacher._generate_cache_key               *)
(*                                                                         *)
(* A string is the sequence of its pieces; two strings are equal iff       *)
(* their sequences are.  A params dict is the sequence of its (key, value) *)
(* items in insertion order, or None.                                      *)
(***************************************************************************)
ParamKeys == {"a", "b"}

\* Values of a parameter: a scalar, a list, and the tuple with the same elements
ParamValues == {"one", "lst", "tup"}

\* Order of str keys under sorted()
KeyLess(x, y) == x = "a" /\ y = "b"

\* parameter "a" takes every value, parameter "b" the scalar
ParamItems == {item \in ParamKeys \X ParamValues : item[1] = "a" \/ item[2] = "one"}

\* dicts with at most two items (the keys of a dict are distinct)
ParamDicts ==
  { << >> } \cup
  { <<item>> : item \in ParamItems } \cup
  { d \in ParamItems \X ParamItems : d[1][1] # d[2][1] }

\* The params argument: a dict (given, with its items) or None
NoParams == [given |-> FALSE, items |-> << >>]

ParamArgs == {[given |-> TRUE, items |-> d] : d \in ParamDicts} \cup {NoParams}

\* HTTP methods, and a method string that holds the separator
Methods == { <<"GET">>, <<"POST">>, <<"GET", ":", "u">> }

\* The text json.dumps gives for a list of [key, value] pairs
RECURSIVE JsonDumpsItems(_)
JsonDumpsItems(items) ==
  IF items = << >> THEN << >>
  ELSE <<"[", Head(items)[1], ",", JsonDumps(Head(items)[2]), "]">>
         \o (IF Tail(items) = << >> THEN << >> ELSE <<",">>)
         \o JsonDumpsItems(Tail(items))

\* URLs: two plain ones, one with a port-like colon, and one that ends in
\* the text the key derivation appends for params {"a": "one"}
Urls ==
  { <<"u">>, <<"v">>, <<"u", ":", "v">>,
    <<"u", ":", "[">> \o JsonDumpsItems(<< <<"a", "one">> >>) \o <<"]">> }

RECURSIVE Insert(_, _)
Insert(item, sorted) ==
  IF sorted = << >> THEN <<item>>
  ELSE IF KeyLess(item[1], Head(sorted)[1]) THEN <<item>> \o sorted
  ELSE <<Head(sorted)>> \o Insert(item, Tail(sorted))

Sorted_InsertionOrder(items) == items

\* sorted(params.items())
RECURSIVE Sorted(_)
Sorted(items) ==
  IF items = << >> THEN << >> ELSE Insert(Head(items), Sorted(Tail(items)))

\* `if params:` is false for None and for {}
ParamsTruthy(params) == params.given /\ params.items # << >>

\* hashlib.md5(...).hexdigest(), taken as injective
Md5(text) == <<"md5">> \o text

KeyString(method, url, params) ==
  method \o <<":">> \o url \o
    (IF ParamsTruthy(params)
     THEN <<":", "[">> \o JsonDumpsItems(Sorted(params.items)) \o <<"]">>
     ELSE << >>)

_generate_cache_key(url, params, method) == Md5(KeyString(method, url, params))

\* One call of the static method; keygen keeps the last two calls with
\* their results
GenerateCacheKey(method, url, params) ==
  LET call == [method |-> method, url |-> url, params |-> params,
               key |-> _generate_cache_key(url, params, method)]
  IN
  /\ keygen' = IF keygen = << >> THEN <<call>> ELSE <<keygen[Len(keygen)], call>>
  /\ UNCHANGED <<cacheVars, orchVars, http, risk, otherVars>>

InitKeygen ==
  /\ impl = "core"
  /\ InitCache
  /\ OrchUnused
  /\ CallsUnused

GenerateCacheKeyAny ==
  \E method \in Methods, url \in Urls, params \in ParamArgs :
    GenerateCacheKey(method, url, params)

NextKeygen == GenerateCacheKeyAny

SpecKeygen == InitKeygen /\ [][NextKeygen]_vars

(***************************************************************************)
(* Claims about the key derivation, checked under SpecKeygen.              *)
(***************************************************************************)
\* The key/value pairs of a params argument, whatever their order
PairSet(params) == {params.items[i] : i \in DOMAIN params.items}

\* A method without the separator; a URL that does not end in the text of a
\* parameter list (no valid URL does: that text holds spaces and quotes)
PlainMethod(method) == \A i \in DOMAIN method : method[i] # ":"

PlainUrl(url) == \A i \in DOMAIN url : url[i] # "["

\* The pairs as the key string shows them: values by their JSON text
TextPairSet(params) ==
  {<<params.items[i][1], JsonDumps(params.items[i][2])>> : i \in DOMAIN params.items}

\* C11 as stated: equal method, url and key/value pairs give equal keys
\* whatever the order of the parameters, and calls that differ in method,
\* url or in some parameter's value give different keys.
C11_KeyOrderIndependentAndDistinct ==
  \A i, j \in DOMAIN keygen :
    LET c == keygen[i]
        d == keygen[j]
    IN (c.key = d.key) <=>
         (c.method = d.method /\ c.url = d.url /\ PairSet(c.params) = PairSet(d.params))

\* C11, amended: equal method, url and key/value pairs give equal keys
\* whatever the order of the parameters; two calls whose methods hold no ':'
\* and whose urls do not end in a parameter list get equal keys only if
\* method and url are equal and the parameters have the same names with
\* values of equal JSON text.
C11_KeyOrderIndependent ==
  \A i, j \in DOMAIN keygen :
    LET c == keygen[i]
        d == keygen[j]
    IN
    /\ (c.method = d.method /\ c.url = d.url /\ PairSet(c.params) = PairSet(d.params))
         => c.key = d.key
    /\ (c.key = d.key /\ PlainMethod(c.method) /\ PlainMethod(d.method)
          /\ PlainUrl(c.url) /\ PlainUrl(d.url))
         => /\ c.method = d.method
            /\ c.url = d.url
            /\ TextPairSet(c.params) = TextPairSet(d.params)

C11_Witness ==
  /\ Len(keygen) = 2
  /\ keygen[1].params.items # keygen[2].params.items
  /\ Len(keygen[1].params.items) = 2
  /\ PairSet(keygen[1].params) = PairSet(keygen[2].params)
  /\ keygen[1].method = keygen[2].method
  /\ keygen[1].url = keygen[2].url
  /\ keygen[1].key = keygen[2].key

(***************************************************************************)
(* core/utils/cache_manager.py : CacheManager.get_cached_response          *)
(***************************************************************************)
MaxHttpCalls == 2

HttpUrls == { <<"u">>, <<"v">> }

\* params of the HTTP calls: None, {}, one parameter, and the same two
\* parameters in both orders
HttpParams ==
  { NoParams,
    [given |-> TRUE, items |-> << >>],
    [given |-> TRUE, items |-> << <<"a", "one">> >>],
    [given |-> TRUE, items |-> << <<"a", "one">>, <<"b", "one">> >>],
    [given |-> TRUE, items |-> << <<"b", "one">>, <<"a", "one">> >>] }

\* json.dumps of a dict: the items in the dict's own (insertion) order
RECURSIVE JsonDumpsDictItems(_)
JsonDumpsDictItems(items) ==
  IF items = << >> THEN << >>
  ELSE <<Head(items)[1], ":", JsonDumps(Head(items)[2])>>
         \o (IF Tail(items) = << >> THEN << >> ELSE <<",">>)
         \o JsonDumpsDictItems(Tail(items))

JsonDumpsDict(items) == <<"{">> \o JsonDumpsDictItems(items) \o <<"}">>

\* cache_key = f"http_{url}_{json.dumps(params or {})}"
HttpCacheKey(url, params) ==
  <<"http_">> \o url \o <<"_">> \o JsonDumpsDict(params.items)

\* bool(response) is response.ok
Truthy(value) == value # None /\ value # "resp404"

\* What requests.get does: a response, or an exception
NetworkOutcomes == Responses \cup {"raise"}

\* self.get(key) with the database reachable: the tiers it leaves and the
\* value it returns
UGetOutcome(key) ==
  LET inMem  == key \in DOMAIN memory_cache
      memHit == inMem /\ now < memory_cache[key].expires_at
      mem1   == IF inMem /\ ~memHit THEN DictDel(memory_cache, key) ELSE memory_cache
      found  == RowsOf(db, key) # {}
      row    == FetchOne(db, key)
  IN
  IF memHit THEN [mem |-> memory_cache, db |-> db, ret |-> memory_cache[key].value]
  ELSE IF ~found THEN [mem |-> mem1, db |-> db, ret |-> None]
  ELSE IF now < FromIsoFormat(row.expires_at)
  THEN [mem |-> DictPut(mem1, key,
                  UEntry(PickleLoads(row.value), FromIsoFormat(row.expires_at))),
        db |-> db, ret |-> PickleLoads(row.value)]
  ELSE [mem |-> mem1, db |-> db \ RowsOf(db, key), ret |-> None]

\* cached = self.get(cache_key); if cached: return cached;
\* response = requests.get(...); self.set(cache_key, response, ttl=ttl)
UGetCachedResponse(url, params, ttl, net) ==
  LET cache_key == HttpCacheKey(url, params)
      got       == UGetOutcome(cache_key)
      served    == IF Truthy(got.ret) THEN "cache"
                   ELSE IF net = "raise" THEN "failed" ELSE "network"
      expires_at == now + ttl
      call      == [url |-> url, params |-> params, key |-> cache_key, ttl |-> ttl,
                    at |-> now, served |-> served,
                    ret |-> IF served = "cache" THEN got.ret
                            ELSE IF served = "failed" THEN None ELSE net]
  IN
  /\ impl = "utils"
  /\ Len(http) < MaxHttpCalls
  /\ served = "cache" => net = "resp200"
  /\ http' = Append(http, call)
  /\ IF served = "network"
     THEN /\ memory_cache' = DictPut(got.mem, cache_key, UEntry(net, expires_at))
          /\ db' = InsertOrReplace(got.db,
                     URow(cache_key, PickleDumps(net), IsoFormat(expires_at)))
          /\ lastOp' = [InitOp EXCEPT !.op = "set", !.ttl = ttl, !.val = net]
     ELSE /\ memory_cache' = got.mem
          /\ db' = got.db
          /\ lastOp' = [InitOp EXCEPT !.op = "get", !.ret = got.ret]
  /\ UNCHANGED <<impl, now, durableLost>>
  /\ UNCHANGED <<orchVars, keygen, risk, otherVars>>

InitHttp ==
  /\ impl = "utils"
  /\ InitCache
  /\ OrchUnused
  /\ CallsUnused

UGetCachedResponseAny ==
  \E url \in HttpUrls, params \in HttpParams, ttl \in TTLs, net \in NetworkOutcomes :
    UGetCachedResponse(url, params, ttl, net)

NextHttp ==
  \/ Tick
  \/ UGetCachedResponseAny
  \/ UNewManager

SpecHttp == InitHttp /\ [][NextHttp]_vars

(***************************************************************************)
(* Claim about the utils HTTP cache key, checked under SpecHttp.           *)
(***************************************************************************)
\* C12: two calls of utils get_cached_response with the same url and the
\* same parameters, in whatever order, use the same cache key; when the
\* first stored a response that is still unexpired at the second call, the
\* second is served from the cache.
C12_HttpKeyOrderIndependent ==
  \A i, j \in DOMAIN http :
    (i < j /\ http[i].url = http[j].url /\ PairSet(http[i].params) = PairSet(http[j].params)) =>
      /\ http[i].key = http[j].key
      /\ (j = i + 1 /\ http[i].served = "network" /\ http[i].ret = "resp200"
            /\ http[j].at < http[i].at + http[i].ttl)
           => http[j].served = "cache"

(***************************************************************************)
(* core/risk_engine/calculate_risk.py : RiskEngine                         *)
(*                                                                         *)
(* A finding is a record; a key the dict does not hold has the value       *)
(* Missing.  Scores are exact: a table score s is kept as 20 * s, and      *)
(* overall_score as the fraction num / den.                                *)
(***************************************************************************)
Missing == "MISSING"

\* SEVERITY_SCORES, times 20
SEVERITY_SCORES ==
  [critical |-> 180, high |-> 140, medium |-> 100, low |-> 60, info |-> 2]

Buckets == {"critical", "high", "medium", "low", "info"}

\* Values found under 'severity': the five known ones, one written in
\* capitals, one unknown to the table, or no value at all
Severities == Buckets \cup {"CRITICAL", "bogus", Missing}

\* str.lower()
Lower(text) == IF text = "CRITICAL" THEN "critical" ELSE text

\* OWASP_CATEGORIES, in the order of the dict
OwaspOrder == <<"A01", "A02", "A03", "A04", "A05", "A06", "A07", "A08", "A09", "A10">>

\* category_keywords
CategoryKeywords ==
  [A01 |-> {"access", "permission", "authentication", "authorization", "broken auth"},
   A02 |-> {"ssl", "tls", "encryption", "cryptograph", "certificate", "password"},
   A03 |-> {"injection", "sql", "command", "ldap", "xss"},
   A04 |-> {"design", "flaw", "architecture", "threat model"},
   A05 |-> {"misconfiguration", "config", "default", "debug", "headers", "ports"},
   A06 |-> {"vulnerable", "outdated", "component", "library", "framework", "version",
            "cve", "plugin"},
   A07 |-> {"session", "mfa", "password", "credential", "factor authentication"},
   A08 |-> {"integrity", "signing", "serialization", "dependency", "artifact"},
   A09 |-> {"logging", "monitoring", "detection", "alerting"},
   A10 |-> {"ssrf", "request forgery", "redirect"}]

\* The text of a finding (title + " " + description, lower-cased) is the set
\* of the phrases it holds; a keyword is a substring of the text iff it is a
\* substring of one of the phrases.
Texts ==
  { {}, {"ssl"}, {"password"}, {"sql", "access"}, {"redirect"},
    {"factor authentication"}, {"misconfiguration"}, {"session", "xss"} }

\* keyword in phrase, for the phrases of Texts
IsSubstring(keyword, phrase) ==
  \/ keyword = phrase
  \/ keyword = "authentication" /\ phrase = "factor authentication"
  \/ keyword = "config" /\ phrase = "misconfiguration"

\* any(keyword in finding_text for keyword in keywords)
Matches(code, text) ==
  \E keyword \in CategoryKeywords[code], phrase \in text : IsSubstring(keyword, phrase)

\* A finding dict as a module returns it
Finding(severity, title, text, remediation) ==
  [severity |-> severity, title |-> title, text |-> text, remediation |-> remediation,
   module |-> Missing, cvss_score |-> -1]

\* finding.get("severity", "info").lower()
SeverityOf(finding) ==
  Lower(IF finding.severity = Missing THEN "info" ELSE finding.severity)

\* self.SEVERITY_SCORES.get(severity, 0)
ScoreOf(severity) == IF severity \in Buckets THEN SEVERITY_SCORES[severity] ELSE 0

\* finding["module"] = module_key; finding["cvss_score"] = ...
Tagged(finding, module_key) ==
  [finding EXCEPT !.module = module_key, !.cvss_score = ScoreOf(SeverityOf(finding))]

TagAll(findings, module_key) ==
  [i \in DOMAIN findings |-> Tagged(findings[i], module_key)]

\* isinstance(module_result, dict) and "findings" in module_result
HasFindings(entry) == entry.shape = "dict" /\ entry.has_findings

Extracts_MetadataToo(entry) == HasFindings(entry)

\* the entries _extract_findings reads: all but the one under "metadata"
Extracts(entry) == entry.key # "metadata" /\ HasFindings(entry)

\* _extract_findings: what is appended to self.findings_list
RECURSIVE ExtractFindings(_)
ExtractFindings(scan_results) ==
  IF scan_results = << >> THEN << >>
  ELSE (IF Extracts(Head(scan_results))
        THEN TagAll(Head(scan_results).findings, Head(scan_results).key)
        ELSE << >>)
       \o ExtractFindings(Tail(scan_results))

\* _extract_findings writes the tags into the finding dicts of scan_results
AfterExtraction(scan_results) ==
  [i \in DOMAIN scan_results |->
     IF Extracts(scan_results[i])
     THEN [scan_results[i] EXCEPT !.findings = TagAll(@, scan_results[i].key)]
     ELSE scan_results[i]]

RECURSIVE FirstMatch(_, _)
FirstMatch(codes, text) ==
  IF codes = << >> THEN "A05"
  ELSE IF Matches(Head(codes), text) THEN Head(codes)
  ELSE FirstMatch(Tail(codes), text)

CategoryOf_LastMatch(finding) ==
  LET hits == {i \in DOMAIN OwaspOrder : Matches(OwaspOrder[i], finding.text)}
  IN IF hits = {} THEN "A05"
     ELSE OwaspOrder[CHOOSE i \in hits : \A j \in hits : j <= i]

\* the category _categorize_by_owasp appends the finding to
CategoryOf(finding) == FirstMatch(OwaspOrder, finding.text)

\* self.owasp_mapping[code]["findings"]
CategoryFindings(findings_list, code) ==
  LET InCode(finding) == CategoryOf(finding) = code
  IN SelectSeq(findings_list, InCode)

Weighted_NoCriticalWeight(severity) == ScoreOf(severity)

\* SEVERITY_SCORES.get(severity, 0) * weight, weight 1.5 for critical
Weighted(severity) ==
  IF severity = "critical" THEN (3 * ScoreOf(severity)) \div 2 ELSE ScoreOf(severity)

RECURSIVE WeightedSum(_)
WeightedSum(findings_list) ==
  IF findings_list = << >> THEN 0
  ELSE Weighted(SeverityOf(Head(findings_list))) + WeightedSum(Tail(findings_list))

\* Fractions
Frac(num, den) == [num |-> num, den |-> den]

FracEq(x, y) == x.num * y.den = y.num * x.den

FracGeq(x, y) == x.num * y.den >= y.num * x.den

OverallScore_PlainAverage(findings_list) ==
  IF findings_list = << >> THEN Frac(0, 1)
  ELSE LET average_score == Frac(WeightedSum(findings_list), 20 * Len(findings_list))
       IN IF FracGeq(average_score, Frac(10, 1)) THEN Frac(10, 1) ELSE average_score

\* _calculate_overall_score: 0 without findings, else
\* min(weighted_sum / (len(self.findings_list) * 1.25), 10.0)
OverallScore(findings_list) ==
  IF findings_list = << >> THEN Frac(0, 1)
  ELSE LET average_score == Frac(WeightedSum(findings_list), 25 * Len(findings_list))
       IN IF FracGeq(average_score, Frac(10, 1)) THEN Frac(10, 1) ELSE average_score

\* _get_severity_breakdown: a finding is counted when its severity is a key
\* of the breakdown
SeverityBreakdown(findings_list) ==
  [bucket \in Buckets |->
     LET InBucket(finding) == SeverityOf(finding) = bucket
     IN Len(SelectSeq(findings_list, InBucket))]

\* f["title"], f["severity"]: KeyError when the finding has no such key
KeyErrorIn(finding) == finding.title = Missing \/ finding.severity = Missing

TopCount == 3

\* self.owasp_mapping[code]["findings"][:3]
Top(findings) == SubSeq(findings, 1, IF Len(findings) < TopCount THEN Len(findings) ELSE TopCount)

\* _get_owasp_mapping raises when one of the listed findings lacks a key
OwaspMappingRaises(findings_list) ==
  \E i \in DOMAIN OwaspOrder :
    LET listed == Top(CategoryFindings(findings_list, OwaspOrder[i]))
    IN \E j \in DOMAIN listed : KeyErrorIn(listed[j])

\* _get_owasp_mapping
OwaspMapping(findings_list) ==
  [code \in Range(OwaspOrder) |->
     LET found  == CategoryFindings(findings_list, code)
         listed == Top(found)
     IN [count |-> Len(found),
         findings |-> [j \in DOMAIN listed |->
                         [title |-> listed[j].title, severity |-> listed[j].severity,
                          module |-> listed[j].module]]]]

FracGt(x, y) == x.num * y.den > y.num * x.den

RiskLevel_StrictThresholds(score) ==
  IF FracGt(score, Frac(8, 1)) THEN "Critical"
  ELSE IF FracGt(score, Frac(6, 1)) THEN "High"
  ELSE IF FracGt(score, Frac(4, 1)) THEN "Medium"
  ELSE IF FracGt(score, Frac(2, 1)) THEN "Low"
  ELSE "Minimal"

\* _get_risk_level
RiskLevel(score) ==
  IF FracGeq(score, Frac(8, 1)) THEN "Critical"
  ELSE IF FracGeq(score, Frac(6, 1)) THEN "High"
  ELSE IF FracGeq(score, Frac(4, 1)) THEN "Medium"
  ELSE IF FracGeq(score, Frac(2, 1)) THEN "Low"
  ELSE "Minimal"

RecLimit == 5

FirstOnes_All(findings) == findings

\* critical_findings[:5], high_findings[:5]
FirstOnes(findings) ==
  SubSeq(findings, 1, IF Len(findings) < RecLimit THEN Len(findings) ELSE RecLimit)

\* f.get("severity", "").lower() == severity
HasSeverity(finding, severity) ==
  finding.severity # Missing /\ Lower(finding.severity) = severity

Recommendation(priority, finding, fallback) ==
  [priority |-> priority,
   finding |-> IF finding.title = Missing THEN None ELSE finding.title,
   action |-> IF finding.remediation = Missing THEN fallback ELSE finding.remediation]

\* _get_recommendations
Recommendations(findings_list) ==
  LET IsCritical(finding) == HasSeverity(finding, "critical")
      IsHigh(finding)     == HasSeverity(finding, "high")
      critical_findings   == FirstOnes(SelectSeq(findings_list, IsCritical))
      high_findings       == FirstOnes(SelectSeq(findings_list, IsHigh))
  IN [i \in DOMAIN critical_findings |->
        Recommendation("CRITICAL", critical_findings[i], "Address immediately")]
     \o
     [i \in DOMAIN high_findings |->
        Recommendation("HIGH", high_findings[i], "Address as soon as possible")]

\* The dict calculate_risk returns, or the KeyError it raises
Report(findings_list) ==
  IF OwaspMappingRaises(findings_list)
  THEN [raised |-> TRUE, overall_score |-> Frac(0, 1),
        severity_breakdown |-> [bucket \in Buckets |-> 0],
        owasp_mapping |-> [code \in Range(OwaspOrder) |-> [count |-> 0, findings |-> << >>]],
        risk_level |-> None, recommendations |-> << >>]
  ELSE [raised |-> FALSE, overall_score |-> OverallScore(findings_list),
        severity_breakdown |-> SeverityBreakdown(findings_list),
        owasp_mapping |-> OwaspMapping(findings_list),
        risk_level |-> RiskLevel(OverallScore(findings_list)),
        recommendations |-> Recommendations(findings_list)]

(***************************************************************************)
(* The scan results given to RiskEngine.                                   *)
(***************************************************************************)
Titles == <<"t1", "t2", "t3", "t4", "t5", "t6", "t7">>

\* Findings that differ in one respect each: the severity, the text, a
\* missing title, a remediation text
FindingKinds ==
  { Finding(sev, "title", {}, Missing) : sev \in Severities } \cup
  { Finding("high", "title", text, Missing) : text \in Texts } \cup
  { Finding("medium", Missing, {}, Missing),
    Finding("critical", "title", {"ssl"}, "fix it"),
    Finding("high", "title", {}, "fix it") }

\* The findings of long lists: critical and high ones, with and without a
\* remediation text
ManyKinds ==
  { Finding("critical", "title", {}, Missing),
    Finding("critical", "title", {}, "fix it"),
    Finding("high", "title", {}, Missing) }

MaxFindings == 2

LongLists == 6..7

SeqsOf(kinds, n) == [1..n -> kinds]

\* every finding that has a title gets its own
Titled(findings) ==
  [i \in DOMAIN findings |->
     IF findings[i].title = Missing THEN findings[i]
     ELSE [findings[i] EXCEPT !.title = Titles[i]]]

\* findings[a-1 : b]
Slice(findings, a, b) ==
  IF a > Len(findings) THEN << >>
  ELSE SubSeq(findings, a, IF b < Len(findings) THEN b ELSE Len(findings))

Entry(key, shape, has_findings, findings) ==
  [key |-> key, shape |-> shape, has_findings |-> has_findings, findings |-> findings]

\* One module with all the findings, beside a tech_stack record, a module
\* result that is no dict, a dict without 'findings', and a metadata entry
OneModule(findings) ==
  << Entry("tech_stack", "dict", FALSE, << >>),
     Entry("identity_infra", "dict", TRUE, findings),
     Entry("security_config", "other", FALSE, << >>),
     Entry("metadata", "dict", TRUE, <<Finding("critical", "meta", {}, Missing)>>) >>

\* Three modules holding the first, the next two, and the other findings
ThreeModules(findings) ==
  << Entry("identity_infra", "dict", TRUE, Slice(findings, 1, 1)),
     Entry("security_config", "dict", TRUE, Slice(findings, 2, 3)),
     Entry("threat_intel", "dict", TRUE, Slice(findings, 4, Len(findings))),
     Entry("metadata", "dict", FALSE, << >>) >>

KnownFindings == { Finding(sev, "title", {}, Missing) : sev \in Buckets }

ScanResults ==
  UNION { { OneModule(Titled(fs)) : fs \in SeqsOf(FindingKinds, n) } : n \in 0..MaxFindings }
  \cup
  UNION { { ThreeModules(Titled(fs)) : fs \in SeqsOf(ManyKinds, n) } : n \in LongLists }
  \cup
  UNION { { ThreeModules(Titled(fs)) : fs \in SeqsOf(KnownFindings, n) } : n \in 3..4 }

\* RiskEngine.__init__: the engine as constructed on scan_results, which a
\* caller asks call_limit times for the report
NewEngine(scan_results, call_limit) ==
  [scan_results |-> scan_results, given |-> scan_results, findings_list |-> << >>,
   calls |-> 0, call_limit |-> call_limit, report |-> Report(<< >>)]

\* RiskEngine.calculate_risk
CalculateRisk ==
  /\ risk # << >>
  /\ risk[1].calls < risk[1].call_limit
  /\ LET engine        == risk[1]
         findings_list == engine.findings_list \o ExtractFindings(engine.scan_results)
     IN risk' = << [engine EXCEPT !.scan_results = AfterExtraction(@),
                                  !.findings_list = findings_list,
                                  !.calls = @ + 1,
                                  !.report = Report(findings_list)] >>
  /\ UNCHANGED <<cacheVars, orchVars, keygen, http, otherVars>>

InitRisk ==
  /\ impl = "core"
  /\ InitCache
  /\ OrchUnused
  /\ keygen = << >>
  /\ http = << >>
  /\ OthersUnused
  /\ \E scan_results \in ScanResults : risk = <<NewEngine(scan_results, 1)>>

NextRisk == CalculateRisk

SpecRisk == InitRisk /\ [][NextRisk]_vars

(***************************************************************************)
(* Claims about RiskEngine.calculate_risk, checked under SpecRisk.         *)
(***************************************************************************)
\* calculate_risk was called and returned a report
Returned_Report == risk # << >> /\ risk[1].calls > 0 /\ ~risk[1].report.raised

\* The claims' table: 20 * score * weight per severity; 0 for any other value
ClaimWeights == [critical |-> 270, high |-> 140, medium |-> 100, low |-> 60, info |-> 2]

RECURSIVE ClaimWeightedSum(_)
ClaimWeightedSum(findings) ==
  IF findings = << >> THEN 0
  ELSE (IF SeverityOf(Head(findings)) \in DOMAIN ClaimWeights
        THEN ClaimWeights[SeverityOf(Head(findings))] ELSE 0)
       + ClaimWeightedSum(Tail(findings))

\* C13: whenever calculate_risk returns, overall_score lies in [0, 10]; it is
\* 0 without extracted findings and otherwise min(weighted_sum / (N * 1.25), 10)
\* with N the number of extracted findings and weighted_sum the sum of the
\* table scores (unknown severity 0), critical ones multiplied by 1.5.
C13_OverallScore ==
  Returned_Report =>
    LET found == risk[1].findings_list
        N     == Len(found)
        score == risk[1].report.overall_score
        sum   == ClaimWeightedSum(found)
    IN
    /\ FracGeq(score, Frac(0, 1))
    /\ FracGeq(Frac(10, 1), score)
    /\ N = 0 => FracEq(score, Frac(0, 1))
    /\ N > 0 => FracEq(score, IF sum >= 250 * N THEN Frac(10, 1) ELSE Frac(sum, 25 * N))

C13_Witness ==
  /\ Returned_Report
  /\ \E i \in DOMAIN risk[1].findings_list : risk[1].findings_list[i].severity = "CRITICAL"
  /\ \E i \in DOMAIN risk[1].findings_list : risk[1].findings_list[i].severity = "bogus"
  /\ FracEq(risk[1].report.overall_score, Frac(54, 10))

\* The findings of the scan results the engine was constructed on, module by
\* module (the metadata entry is no module)
RECURSIVE FindingsIn(_)
FindingsIn(scan_results) ==
  IF scan_results = << >> THEN << >>
  ELSE (IF Head(scan_results).key # "metadata" /\ Head(scan_results).shape = "dict"
           /\ Head(scan_results).has_findings
        THEN Head(scan_results).findings ELSE << >>)
       \o FindingsIn(Tail(scan_results))

Called == risk # << >> /\ risk[1].calls > 0

\* C14: on scan results without findings calculate_risk returns
\* overall_score 0 and risk_level "Minimal"; on scan results whose only
\* finding is one critical finding it returns overall_score 10 and
\* risk_level "Critical".
C14_EmptyAndSingleCritical ==
  Called =>
    LET given == FindingsIn(risk[1].given)
        report == risk[1].report
    IN
    /\ given = << >> =>
         /\ ~report.raised
         /\ FracEq(report.overall_score, Frac(0, 1))
         /\ report.risk_level = "Minimal"
    /\ (Len(given) = 1 /\ given[1].severity = "critical" /\ given[1].title # Missing) =>
         /\ ~report.raised
         /\ FracEq(report.overall_score, Frac(10, 1))
         /\ report.risk_level = "Critical"

C14_Witness ==
  /\ Called
  /\ Len(FindingsIn(risk[1].given)) = 1
  /\ FindingsIn(risk[1].given)[1].severity = "critical"
  /\ risk[1].report.risk_level = "Critical"
  /\ risk[1].report.overall_score = Frac(10, 1)

\* Scan results of three modules that together hold 1 critical, 2 high and
\* 1 medium finding
OneTwoOne(scan_results) ==
  LET given == FindingsIn(scan_results)
      Has(severity, n) ==
        Cardinality({i \in DOMAIN given : given[i].severity = severity}) = n
      modules == {i \in DOMAIN scan_results : scan_results[i].key # "metadata"}
  IN /\ Cardinality(modules) = 3
     /\ Len(given) = 4
     /\ Has("critical", 1) /\ Has("high", 2) /\ Has("medium", 1)

ExpectedBreakdown ==
  [critical |-> 1, high |-> 2, medium |-> 1, low |-> 0, info |-> 0]

\* C15 as stated: for three modules with 1 critical, 2 high and 1 medium
\* finding, severity_breakdown is {critical: 1, high: 2, medium: 1, low: 0,
\* info: 0} and overall_score is 6.7.
C15_EndToEnd_6_7 ==
  (Called /\ OneTwoOne(risk[1].given)) =>
    /\ ~risk[1].report.raised
    /\ risk[1].report.severity_breakdown = ExpectedBreakdown
    /\ FracEq(risk[1].report.overall_score, Frac(67, 10))

\* C15, amended: for three modules with 1 critical, 2 high and 1 medium
\* finding, severity_breakdown is {critical: 1, high: 2, medium: 1, low: 0,
\* info: 0} and overall_score is (9.0*1.5 + 7.0 + 7.0 + 5.0) / (4*1.25) = 6.5.
C15_EndToEnd ==
  (Called /\ OneTwoOne(risk[1].given)) =>
    /\ ~risk[1].report.raised
    /\ risk[1].report.severity_breakdown = ExpectedBreakdown
    /\ FracEq(risk[1].report.overall_score, Frac(65, 10))
    /\ risk[1].report.risk_level = "High"

C15_Witness ==
  /\ Called
  /\ OneTwoOne(risk[1].given)
  /\ risk[1].given[1].findings[1].severity = "critical"
  /\ risk[1].given[2].findings[1].severity = "high"
  /\ risk[1].given[2].findings[2].severity = "high"
  /\ risk[1].given[3].findings[1].severity = "medium"
  /\ risk[1].report.severity_breakdown["high"] = 2

\* The bucket the claim gives a severity value: its lower-cased name when
\* that is one of the five, "info" when it is missing or unknown
ClaimBucket(finding) ==
  IF finding.severity # Missing /\ Lower(finding.severity) \in Buckets
  THEN Lower(finding.severity) ELSE "info"

\* C16: calculate_risk counts every extracted finding in exactly one of the
\* five severity buckets, a missing or unknown severity as "info"; the five
\* counts of severity_breakdown sum to the number of extracted findings.
C16_EveryFindingInOneBucket ==
  (Called /\ \A i \in DOMAIN risk[1].findings_list :
               risk[1].findings_list[i].title # Missing) =>
    LET found  == risk[1].findings_list
        counts == risk[1].report.severity_breakdown
    IN
    /\ ~risk[1].report.raised
    /\ \A bucket \in Buckets :
         counts[bucket] = Cardinality({i \in DOMAIN found : ClaimBucket(found[i]) = bucket})
    /\ counts["critical"] + counts["high"] + counts["medium"] + counts["low"]
         + counts["info"] = Len(found)

\* The category the claim assigns: the first of A01..A10 with a keyword in
\* the text, A05 when there is none
ClaimCategory(finding) ==
  LET hits == {i \in DOMAIN OwaspOrder : Matches(OwaspOrder[i], finding.text)}
  IN IF hits = {} THEN "A05"
     ELSE OwaspOrder[CHOOSE i \in hits : \A j \in hits : i <= j]

RECURSIVE SumCounts(_, _)
SumCounts(mapping, codes) ==
  IF codes = << >> THEN 0
  ELSE mapping[Head(codes)].count + SumCounts(mapping, Tail(codes))

\* C17: whenever calculate_risk returns, each finding is counted in exactly
\* one category, the first of A01..A10 one of whose keywords occurs in its
\* text, or A05 when none does; the per-category counts sum to the number of
\* findings, and findings with the same text are in the same category.
C17_FirstMatchCategory ==
  Returned_Report =>
    LET found   == risk[1].findings_list
        mapping == risk[1].report.owasp_mapping
    IN
    /\ \A code \in Range(OwaspOrder) :
         /\ mapping[code].count =
              Cardinality({i \in DOMAIN found : ClaimCategory(found[i]) = code})
         /\ \A j \in DOMAIN mapping[code].findings :
              \E i \in DOMAIN found :
                /\ mapping[code].findings[j].title = found[i].title
                /\ ClaimCategory(found[i]) = code
    /\ SumCounts(mapping, OwaspOrder) = Len(found)

C17_Witness ==
  /\ Returned_Report
  /\ Len(risk[1].findings_list) = 2
  /\ risk[1].findings_list[1].text = {"sql", "access"}
  /\ risk[1].findings_list[2].text = {}
  /\ risk[1].report.owasp_mapping["A01"].count = 1
  /\ risk[1].report.owasp_mapping["A03"].count = 0
  /\ risk[1].report.owasp_mapping["A05"].count = 1

\* score >= n and score < n, for a score num / den with den > 0
AtLeast(score, n) == score.num >= n * score.den

Below(score, n) == score.num < n * score.den

Levels == {"Critical", "High", "Medium", "Low", "Minimal"}

\* C18: the risk_level of a returned report is determined by overall_score:
\* "Critical" iff score >= 8, "High" iff 6 <= score < 8, "Medium" iff
\* 4 <= score < 6, "Low" iff 2 <= score < 4, "Minimal" iff score < 2.
C18_RiskLevelThresholds ==
  Returned_Report =>
    LET score == risk[1].report.overall_score
        level == risk[1].report.risk_level
    IN
    /\ level \in Levels
    /\ level = "Critical" <=> AtLeast(score, 8)
    /\ level = "High"     <=> (AtLeast(score, 6) /\ Below(score, 8))
    /\ level = "Medium"   <=> (AtLeast(score, 4) /\ Below(score, 6))
    /\ level = "Low"      <=> (AtLeast(score, 2) /\ Below(score, 4))
    /\ level = "Minimal"  <=> Below(score, 2)

C18_Witness ==
  /\ Returned_Report
  /\ Len(risk[1].findings_list) = 1
  /\ risk[1].report.overall_score.num = 4 * risk[1].report.overall_score.den
  /\ risk[1].report.risk_level = "Medium"

\* Positions in the extracted findings of those of one severity
Positions(found, severity) ==
  {i \in DOMAIN found : found[i].severity # Missing /\ Lower(found[i].severity) = severity}

\* The k-th of them in extraction order
Kth(found, severity, k) ==
  CHOOSE i \in Positions(found, severity) :
    Cardinality({j \in Positions(found, severity) : j < i}) = k - 1

AtMost5(n) == IF n < 5 THEN n ELSE 5

\* The item the claim expects for a finding
ExpectedItem(priority, finding) ==
  [priority |-> priority,
   finding |-> finding.title,
   action |-> IF finding.remediation # Missing THEN finding.remediation
              ELSE IF priority = "CRITICAL" THEN "Address immediately"
              ELSE "Address as soon as possible"]

\* C19: the recommendations of a returned report are the first
\* min(5, #critical) critical findings in extraction order followed by the
\* first min(5, #high) high findings in extraction order, and nothing else;
\* the action of an item is the finding's remediation text, or the fixed
\* fallback of its priority when the finding has none.
C19_Recommendations ==
  Returned_Report =>
    LET found == risk[1].findings_list
        items == risk[1].report.recommendations
        nc    == AtMost5(Cardinality(Positions(found, "critical")))
        nh    == AtMost5(Cardinality(Positions(found, "high")))
    IN
    /\ Len(items) = nc + nh
    /\ \A k \in 1..nc : items[k] = ExpectedItem("CRITICAL", found[Kth(found, "critical", k)])
    /\ \A k \in 1..nh : items[nc + k] = ExpectedItem("HIGH", found[Kth(found, "high", k)])

C19_Witness ==
  /\ Returned_Report
  /\ Cardinality(Positions(risk[1].findings_list, "critical")) = 6
  /\ Cardinality(Positions(risk[1].findings_list, "high")) = 1
  /\ risk[1].findings_list[1].severity = "high"
  /\ Len(risk[1].report.recommendations) = 6
  /\ risk[1].report.recommendations[6].priority = "HIGH"
  /\ \E k \in 1..5 : risk[1].report.recommendations[k].action = "fix it"
  /\ \E k \in 1..5 : risk[1].report.recommendations[k].action = "Address immediately"

(***************************************************************************)
(* Claim about the registry filter of run_scan, checked under SpecOrch.    *)
(***************************************************************************)
\* Positions of the selection that name a registered module
Registered == {i \in DOMAIN selected_modules : Strip(selected_modules[i]) \in ModuleMap}

\* The k-th of them
KthRegistered(k) ==
  CHOOSE i \in Registered : Cardinality({j \in Registered : j < i}) = k - 1

\* C20: run_scan drops the selected ids that are not in the registry: only
\* registered ids are attempted, in their order in the selection; results
\* never holds an entry for another id; the progress range 5..95 is divided
\* among the registered ids only; and no exception comes from an unknown id
\* (run_scan fails only after a module returned findings that are no list).
C20_UnknownIdsDropped ==
  /\ [][(pc = "loop" /\ pc' = "exec" /\ has_callback) =>
          cb'.last = 5 + (90 * index) \div Cardinality(Registered)]_vars
  /\ [](/\ Len(attempted) <= Cardinality(Registered)
        /\ \A k \in DOMAIN attempted :
             attempted[k] = Strip(selected_modules[KthRegistered(k)])
        /\ DOMAIN results \subseteq ModuleMap \cup {"tech_stack", "metadata"}
        /\ pc = "done" => Len(attempted) = Cardinality(Registered)
        /\ pc = "crashed" => \E k \in DOMAIN outcomes : outcomes[k] = "findings_none")

C20_Witness ==
  /\ pc = "done"
  /\ has_callback
  /\ selected_modules = <<"bogus", " security_config ", "", "identity_infra">>
  /\ attempted = <<"security_config", "identity_infra">>
  /\ DOMAIN results = {"tech_stack", "security_config", "identity_infra", "metadata"}

(***************************************************************************)
(* Claims about the steps of run_scan, checked under SpecOrch.             *)
(***************************************************************************)
\* The technology-detection step of the current run raised
TechRaised == "tech_stack" \in DOMAIN results /\ results["tech_stack"].error # None

\* C21: the technology-detection step runs in every run_scan, including the
\* runs with an empty filtered selection, and before any selected module is
\* constructed: from the moment the first module starts, results holds
\* 'tech_stack', inserted first.  When the step raises, the entry is the
\* degraded record {error: <message>, technologies: []} and every module of
\* the filtered selection is still attempted before run_scan ends.
C21_TechDetectionFirst ==
  /\ [][pc = "tech" =>
          /\ pc' = "loop"
          /\ attempted' = << >>
          /\ "tech_stack" \in DOMAIN results'
          /\ results'["tech_stack"].error # None =>
               /\ results'["tech_stack"].shape = "dict"
               /\ results'["tech_stack"].error = "tech failed"
               /\ results'["tech_stack"].technologies = << >>
       ]_vars
  /\ [](/\ pc \in {"loop", "exec", "done", "crashed"} =>
             /\ "tech_stack" \in DOMAIN results
             /\ results_order[1] = "tech_stack"
        /\ attempted # << >> => "tech_stack" \in DOMAIN results
        /\ pc \in {"done", "crashed"} => attempted = Filter(selected_modules))

C21_Witness ==
  /\ pc = "done"
  /\ TechRaised
  /\ results["tech_stack"].technologies = << >>
  /\ attempted = <<"identity_infra", "security_config", "threat_intel">>
  /\ \A i \in DOMAIN outcomes : outcomes[i] = "ok_findings"

\* What execute returned is no mapping with a list under 'findings'
Malformed(outcome) == ~Raises(outcome) /\ ~WellFormed(outcome)

\* C22: when a selected module's execute returns malformed data instead of
\* raising (None, a value that is no dict, a dict whose 'findings' is no
\* list), the entry stored under the module's id is a status "error" result
\* with empty findings, the loop goes on, and run_scan returns normally.
C22_MalformedBecomesError ==
  /\ [][(pc = "exec" /\ pc' # "exec") =>
          LET module_key == modules_to_run[index + 1]
              outcome    == outcomes'[Len(outcomes')]
          IN
          Malformed(outcome) =>
            /\ pc' = "loop"
            /\ results'[module_key].shape = "dict"
            /\ results'[module_key].status = "error"
            /\ results'[module_key].fkind = "list"
            /\ results'[module_key].findings = << >>
       ]_vars
  /\ [](pc # "crashed")

\* The part of C23 about order: the modules attempted so far are the first
\* ones of the filtered selection, one attempt per occurrence; a module
\* starts only when all earlier ones have ended and their results are
\* stored; the finalizing step is taken only after the last one.
C23_InSelectionOrder ==
  /\ [][ /\ (pc = "loop" /\ pc' = "exec") =>
            /\ Len(attempted) = index
            /\ \A k \in 1..index : modules_to_run[k] \in DOMAIN results
         /\ (pc = "exec" /\ pc' = "loop") =>
            /\ attempted' = Append(attempted, modules_to_run[index + 1])
            /\ modules_to_run[index + 1] \in DOMAIN results'
         /\ (pc = "loop" /\ pc' \in {"done", "crashed"}) =>
            attempted = Filter(selected_modules)
       ]_vars
  /\ [](/\ Len(attempted) <= Len(modules_to_run)
        /\ attempted = SubSeq(modules_to_run, 1, Len(attempted))
        /\ pc \in {"loop", "exec", "done", "crashed"} =>
             modules_to_run = Filter(selected_modules))

\* C23: in sequential mode, once run_scan has started, every module of the
\* filtered selection is attempted exactly once per occurrence, strictly in
\* selection order, all of them before the 95 report; and, every module's
\* execute terminating, run_scan terminates and returns the results.
C23_SequentialRunCompletes ==
  /\ C23_InSelectionOrder
  /\ (pc = "tech") ~> (pc = "done")

(***************************************************************************)
(* The progress arithmetic of run_scan in Python floats (IEEE 754 binary64, *)
(* round to nearest, ties to even).  A natural number is a sequence of     *)
(* digits, least significant first, without leading zero; a float x >= 0   *)
(* is the natural number x * 2^FracBits.  Every float that occurs here is  *)
(* zero or at least 1/100, hence a multiple of 2^-59.                      *)
(***************************************************************************)
MaxModules == 39

\* significand bits of a float
Mantissa == 53

\* bits of a digit, and the base of the digits
DigitBits == 15

Base == 2^DigitBits

\* binary places kept by the representation
FracBits == 4 * DigitBits

RECURSIVE DigitsOf(_)
DigitsOf(n) == IF n = 0 THEN << >> ELSE <<n % Base>> \o DigitsOf(n \div Base)

RECURSIVE NatOf(_)
NatOf(digits) == IF digits = << >> THEN 0 ELSE Head(digits) + Base * NatOf(Tail(digits))

RECURSIVE Trim(_)
Trim(digits) ==
  IF digits = << >> \/ digits[Len(digits)] # 0 THEN digits
  ELSE Trim(SubSeq(digits, 1, Len(digits) - 1))

Digit(digits, i) == IF i \in DOMAIN digits THEN digits[i] ELSE 0

Rest(digits) == IF digits = << >> THEN << >> ELSE Tail(digits)

\* a + b + carry
RECURSIVE AddC(_, _, _)
AddC(a, b, carry) ==
  IF a = << >> /\ b = << >>
  THEN (IF carry = 0 THEN << >> ELSE <<carry>>)
  ELSE LET x == Digit(a, 1) + Digit(b, 1) + carry
       IN <<x % Base>> \o AddC(Rest(a), Rest(b), x \div Base)

\* a - b - borrow, for a >= b + borrow (leading zeros are left in)
RECURSIVE SubB(_, _, _)
SubB(a, b, borrow) ==
  IF a = << >> THEN << >>
  ELSE LET x == Digit(a, 1) - Digit(b, 1) - borrow
       IN <<x % Base>> \o SubB(Tail(a), Rest(b), IF x < 0 THEN 1 ELSE 0)

\* a * m + carry for one digit m
RECURSIVE MulDigit(_, _, _)
MulDigit(a, m, carry) ==
  IF a = << >> THEN (IF carry = 0 THEN << >> ELSE <<carry>>)
  ELSE LET x == Head(a) * m + carry
       IN <<x % Base>> \o MulDigit(Tail(a), m, x \div Base)

RECURSIVE Mul(_, _)
Mul(a, b) ==
  IF a = << >> \/ b = << >> THEN << >>
  ELSE Trim(AddC(MulDigit(a, Head(b), 0), <<0>> \o Mul(a, Tail(b)), 0))

\* quotient (leading zeros left in) and remainder of a by the small number n
RECURSIVE DivSmall(_, _)
DivSmall(a, n) ==
  IF a = << >> THEN [q |-> << >>, r |-> 0]
  ELSE LET high == DivSmall(Tail(a), n)
           cur  == Base * high.r + Head(a)
       IN [q |-> <<cur \div n>> \o high.q, r |-> cur % n]

\* a * 2^n
Shl(a, n) ==
  LET r == n % DigitBits
      shifted == [i \in 1..(Len(a) + 1) |->
                    (Digit(a, i) % 2^(DigitBits - r)) * 2^r
                      + Digit(a, i - 1) \div 2^(DigitBits - r)]
  IN IF a = << >> THEN << >>
     ELSE [i \in 1..(n \div DigitBits) |-> 0] \o Trim(shifted)

\* a \div 2^n
Shr(a, n) ==
  LET r == n % DigitBits
      w == SubSeq(a, n \div DigitBits + 1, Len(a))
  IN Trim([i \in DOMAIN w |-> w[i] \div 2^r + (Digit(w, i + 1) % 2^r) * 2^(DigitBits - r)])

\* number of bits of a
BitLen(a) ==
  IF a = << >> THEN 0
  ELSE DigitBits * (Len(a) - 1)
         + CHOOSE k \in 1..DigitBits : 2^(k - 1) <= a[Len(a)] /\ a[Len(a)] < 2^k

\* The float nearest to the number v (ties to even); sticky tells that the
\* exact value lies above v, by less than one unit of v's last place.
Round(v, sticky) ==
  LET drop == BitLen(v) - Mantissa
  IN IF drop <= 0 THEN v
     ELSE LET kept  == Shr(v, drop)
              half  == Shr(v, drop - 1)[1] % 2 = 1
              below == sticky \/ Shl(Shr(v, drop - 1), drop - 1) # v
              up    == half /\ (below \/ kept[1] % 2 = 1)
          IN Shl(IF up THEN AddC(kept, <<1>>, 0) ELSE kept, drop)

\* float(n)
FloatOfInt(n) == Shl(DigitsOf(n), FracBits)

\* a / b for integers a >= 0, b > 0 (also a / float(b)): the float nearest
\* to the quotient
TrueDiv(a, b) ==
  LET d == DivSmall(Shl(DigitsOf(a), 2 * FracBits), b)
  IN Shr(Round(Trim(d.q), d.r # 0), FracBits)

\* x * y
FMul(x, y) == Shr(Round(Mul(x, y), FALSE), FracBits)

\* x + y
FAdd(x, y) == Round(AddC(x, y, 0), FALSE)

\* x - y, for x >= y
FSub(x, y) == Round(Trim(SubB(x, y, 0)), FALSE)

\* int(x)
IntOf(x) == NatOf(Shr(x, FracBits))

\* module_range_size = (MODULES_END - MODULES_START) / total_modules
ModuleRangeSize(total_modules) == TrueDiv(MODULES_END - MODULES_START, total_modules)

\* start_pct = MODULES_START + (index * module_range_size)
StartPct(i, total_modules) ==
  FAdd(FloatOfInt(MODULES_START), FMul(FloatOfInt(i), ModuleRangeSize(total_modules)))

\* end_pct = MODULES_START + ((index + 1) * module_range_size)
EndPct(i, total_modules) == StartPct(i + 1, total_modules)

\* overall_pct = int(s_pct + (module_internal_pct / 100.0) * (e_pct - s_pct))
OverallPct(i, total_modules, module_internal_pct) ==
  LET s_pct == StartPct(i, total_modules)
      e_pct == EndPct(i, total_modules)
  IN IntOf(FAdd(s_pct, FMul(TrueDiv(module_internal_pct, 100), FSub(e_pct, s_pct))))

\* Internal percentages given to the sub-callback
SlicePcts == {0, 1, 33, 70, 100}

\* sub_cb(module_internal_pct, status_msg) of module number index of a run
\* with total_modules modules and a progress callback
SubCallback ==
  /\ slice # << >>
  /\ ~slice[1].called
  /\ slice' = << [slice[1] EXCEPT
                    !.called = TRUE,
                    !.overall_pct = OverallPct(slice[1].index, slice[1].total_modules,
                                               slice[1].module_internal_pct)] >>
  /\ UNCHANGED <<cacheVars, orchVars, callVars, lock, threads, scan, singleton>>

InitSlices ==
  /\ impl = "core"
  /\ InitCache
  /\ OrchUnused
  /\ keygen = << >>
  /\ http = << >>
  /\ risk = << >>
  /\ lock = "free"
  /\ threads = [t \in Threads |-> IdleThread]
  /\ scan = NewScanner
  /\ singleton = ModulesLoaded
  /\ \E total_modules \in 1..MaxModules, i \in 0..(MaxModules - 1),
        module_internal_pct \in SlicePcts :
       /\ i < total_modules
       /\ slice = << [total_modules |-> total_modules, index |-> i,
                      module_internal_pct |-> module_internal_pct,
                      called |-> FALSE, overall_pct |-> 0] >>

NextSlices == SubCallback

SpecSlices == InitSlices /\ [][NextSlices]_vars

\* C29: with N >= 1 filtered modules, module i owns the slice [s_i, e_i],
\* s_i = 5 + i*90/N and e_i = 5 + (i+1)*90/N: the value reported for the
\* internal percentage p is int(s_i + p/100*(e_i - s_i)) and lies between
\* int(s_i) and int(e_i); the first one ("Starting...", p = 0) is int(s_i),
\* the last one ("Completed", p = 100) is int(e_i); the slices are
\* contiguous; and the last module completes at 95.
C29_SlicesPartitionRange ==
  (slice # << >> /\ slice[1].called) =>
    LET N     == slice[1].total_modules
        i     == slice[1].index
        p     == slice[1].module_internal_pct
        s_i   == StartPct(i, N)
        e_i   == EndPct(i, N)
        value == slice[1].overall_pct
    IN
    /\ value = IntOf(FAdd(s_i, FMul(TrueDiv(p, 100), FSub(e_i, s_i))))
    /\ IntOf(s_i) <= value
    /\ value <= IntOf(e_i)
    /\ p = 0 => value = IntOf(s_i)
    /\ p = 100 => value = IntOf(e_i)
    /\ i + 1 < N => e_i = StartPct(i + 1, N)
    /\ StartPct(0, N) = FloatOfInt(MODULES_START)
    /\ (i = N - 1 /\ p = 100) => value = MODULES_END

(***************************************************************************)
(* Claims about repeated calls of calculate_risk and about its effect on   *)
(* the scan results, checked with a caller that calls twice.               *)
(***************************************************************************)
InitRiskTwice ==
  /\ impl = "core"
  /\ InitCache
  /\ OrchUnused
  /\ keygen = << >>
  /\ http = << >>
  /\ OthersUnused
  /\ \E scan_results \in ScanResults : risk = <<NewEngine(scan_results, 2)>>

SpecRiskTwice == InitRiskTwice /\ [][NextRisk]_vars

\* the step is the second call of calculate_risk on the engine, made after
\* the first call returned a report
SecondCall ==
  /\ risk # << >>
  /\ risk[1].calls = 1
  /\ ~risk[1].report.raised
  /\ risk'[1].calls = 2

\* C27: a second call of calculate_risk on the same RiskEngine returns a
\* report equal to the one of the first call: the same overall_score,
\* severity_breakdown, owasp_mapping counts, risk_level and recommendations.
C27_SecondCallSameReport ==
  [][SecondCall =>
       LET first  == risk[1].report
           second == risk'[1].report
       IN
       /\ ~second.raised
       /\ FracEq(second.overall_score, first.overall_score)
       /\ second.severity_breakdown = first.severity_breakdown
       /\ \A code \in Range(OwaspOrder) :
            second.owasp_mapping[code].count = first.owasp_mapping[code].count
       /\ second.risk_level = first.risk_level
       /\ second.recommendations = first.recommendations
    ]_vars

\* C28: calculate_risk reads the scan results it was given without writing
\* to them: after the call the scan_results mapping, and every finding
\* record inside it, is what the caller passed in.
C28_ScanResultsUnchanged ==
  Called => risk[1].scan_results = risk[1].given

(***************************************************************************)
(* core CacheManager shared by threads.  An operation is a sequence of     *)
(* steps: entering "with self.lock", the statements on the memory tier,    *)
(* the statements on the durable tier, leaving the with block.  The        *)
(* threads work on one key, store one value, and the clock stands still.   *)
(***************************************************************************)
LockedOps == {"set", "get", "delete", "clear", "cleanup_expired"}

SharedKey == "k1"

SharedData == "lst"

threadFrame == <<impl, now, lastOp, durableLost, orchVars, callVars, slice, scan, singleton>>

At(t, pc_) == [threads EXCEPT ![t].pc = pc_]

Returns(t, pc_, value) == [threads EXCEPT ![t].pc = pc_, ![t].ret = value]

\* thread t calls an operation of the manager
TCall(t, op) ==
  /\ threads[t].pc = "idle"
  /\ op = "get" =>
       /\ SharedKey \in DOMAIN memory_cache => memory_cache[SharedKey].hit_count < MaxHits
       /\ \A r \in RowsOf(db, SharedKey) : r.hit_count < MaxHits
  /\ threads' = [threads EXCEPT ![t] =
                   [IdleThread EXCEPT !.op = op,
                                      !.pc = IF op = "get_stats" THEN "stats_db"
                                             ELSE "acquire"]]
  /\ UNCHANGED <<lock, memory_cache, db>>
  /\ UNCHANGED threadFrame

\* with self.lock: (entering)
TAcquire(t) ==
  /\ threads[t].pc = "acquire"
  /\ lock = "free"
  /\ lock' = t
  /\ threads' = At(t, "memory")
  /\ UNCHANGED <<memory_cache, db>>
  /\ UNCHANGED threadFrame

\* the statements of the operation on self.memory_cache
TMemory(t) ==
  LET op     == threads[t].op
      inMem  == SharedKey \in DOMAIN memory_cache
      memHit == inMem /\ MemFresh(memory_cache[SharedKey], now)
  IN
  /\ threads[t].pc = "memory"
  /\ CASE op = "set" ->
            /\ memory_cache' = DictPut(memory_cache, SharedKey,
                                       MemEntry(SharedData, now + 1, 0))
            /\ threads' = At(t, "durable")
       [] op = "get" ->
            IF memHit
            THEN /\ memory_cache' = [memory_cache EXCEPT ![SharedKey].hit_count = @ + 1]
                 /\ threads' = Returns(t, "release", memory_cache[SharedKey].data)
            ELSE /\ memory_cache' = IF inMem THEN DictDel(memory_cache, SharedKey)
                                    ELSE memory_cache
                 /\ threads' = At(t, "durable")
       [] op = "delete" ->
            /\ memory_cache' = DictDel(memory_cache, SharedKey)
            /\ threads' = At(t, "durable")
       [] op = "clear" ->
            /\ memory_cache' = EmptyDict
            /\ threads' = At(t, "durable")
       [] op = "cleanup_expired" ->
            /\ memory_cache' = [k \in (DOMAIN memory_cache) \ ExpiredKeys(memory_cache, now)
                                  |-> memory_cache[k]]
            /\ threads' = At(t, "durable")
  /\ UNCHANGED <<lock, db>>
  /\ UNCHANGED threadFrame

\* the statements of the operation on the database, inside try/except
TDurable(t, env) ==
  LET op    == threads[t].op
      found == RowsOf(db, SharedKey) # {}
      row   == FetchOne(db, SharedKey)
  IN
  /\ threads[t].pc = "durable"
  /\ CASE op = "set" ->
            /\ db' = IF env = NoFail
                     THEN InsertOrReplace(db, DbRow(SharedKey, JsonDumps(SharedData),
                                                    now + 1, 0))
                     ELSE db
            /\ memory_cache' = memory_cache
            /\ threads' = Returns(t, "release", IF env = NoFail THEN "True" ELSE "False")
       [] op = "get" ->
            IF env = NoFail /\ found /\ RowFresh(row, now)
            THEN /\ db' = UpdateHit(db, SharedKey)
                 /\ memory_cache' = DictPut(memory_cache, SharedKey,
                                            MemEntry(JsonLoads(row.data), row.expires_at,
                                                     row.hit_count + 1))
                 /\ threads' = Returns(t, "release", JsonLoads(row.data))
            ELSE /\ db' = IF env = NoFail /\ found THEN db \ RowsOf(db, SharedKey) ELSE db
                 /\ memory_cache' = memory_cache
                 /\ threads' = Returns(t, "release", None)
       [] op = "delete" ->
            /\ db' = IF env = NoFail THEN db \ RowsOf(db, SharedKey) ELSE db
            /\ memory_cache' = memory_cache
            /\ threads' = Returns(t, "release", None)
       [] op = "clear" ->
            /\ db' = IF env = NoFail THEN {} ELSE db
            /\ memory_cache' = memory_cache
            /\ threads' = Returns(t, "release", None)
       [] op = "cleanup_expired" ->
            /\ db' = IF env = NoFail THEN DeleteExpiredRows(db, now) ELSE db
            /\ memory_cache' = memory_cache
            /\ threads' = Returns(t, "release", None)
  /\ UNCHANGED lock
  /\ UNCHANGED threadFrame

\* leaving the with block
TRelease(t) ==
  /\ threads[t].pc = "release"
  /\ lock' = "free"
  /\ threads' = At(t, "idle")
  /\ UNCHANGED <<memory_cache, db>>
  /\ UNCHANGED threadFrame

\* get_stats: the SELECTs, inside try/except
TStatsDb(t, env) ==
  /\ threads[t].pc = "stats_db"
  /\ threads' = IF env = NoFail
                THEN [threads EXCEPT ![t].pc = "stats_mem",
                                     ![t].total_entries = Cardinality(db)]
                ELSE Returns(t, "idle", "{}")
  /\ UNCHANGED <<lock, memory_cache, db>>
  /\ UNCHANGED threadFrame

\* get_stats: 'memory_entries': len(self.memory_cache), and the return
TStatsMem(t) ==
  /\ threads[t].pc = "stats_mem"
  /\ threads' = [threads EXCEPT ![t].pc = "idle", ![t].ret = "stats",
                                ![t].memory_entries = Cardinality(DOMAIN memory_cache)]
  /\ UNCHANGED <<lock, memory_cache, db>>
  /\ UNCHANGED threadFrame

InitThreads ==
  /\ impl = "core"
  /\ InitCache
  /\ OrchUnused
  /\ CallsUnused

TCallAny == \E t \in Threads, op \in LockedOps \cup {"get_stats"} : TCall(t, op)

TAcquireAny == \E t \in Threads : TAcquire(t)

TMemoryAny == \E t \in Threads : TMemory(t)

TDurableAny == \E t \in Threads, env \in EnvFails : TDurable(t, env)

TReleaseAny == \E t \in Threads : TRelease(t)

TStatsDbAny == \E t \in Threads, env \in EnvFails : TStatsDb(t, env)

TStatsMemAny == \E t \in Threads : TStatsMem(t)

NextThreads ==
  \/ TCallAny
  \/ TAcquireAny
  \/ TMemoryAny
  \/ TDurableAny
  \/ TReleaseAny
  \/ TStatsDbAny
  \/ TStatsMemAny

SpecThreads == InitThreads /\ [][NextThreads]_vars

\* thread t reads or writes a tier in this step
Accesses(t) ==
  /\ threads[t].pc \in {"memory", "durable", "stats_db", "stats_mem"}
  /\ threads'[t] # threads[t]

\* thread u has read or written a tier in its operation and is not done
\* with the tiers
PartWay(u) == threads[u].pc \in {"durable", "stats_mem"}

\* C24: every operation of the core CacheManager (get, set, delete, clear,
\* cleanup_expired, get_stats) makes all its accesses to the two tiers
\* while it holds the lock of the manager, so that, in every interleaving
\* of the threads, no operation reads or writes a tier while another
\* operation on the same manager is part-way through.
C24_WholeOperationUnderLock ==
  [][\A t \in Threads :
       Accesses(t) =>
         /\ lock = t
         /\ \A u \in Threads \ {t} : ~PartWay(u)
    ]_vars

(***************************************************************************)
(* core/scanner.py : WebSecurityScanner.scan, the parallel mode.           *)
(***************************************************************************)
\* ThreadPoolExecutor(max_workers=3)
PoolSize == 3

scanFrame == <<cacheVars, orchVars, callVars, slice, lock, threads, singleton>>

Running == {m \in ScanModules : scan.futures[m] = "running"}

\* scan() up to the end of the three executor.submit calls
ScanStart ==
  /\ scan.pc = "idle"
  /\ scan' = [scan EXCEPT !.pc = "as_completed",
                          !.futures = [m \in ScanModules |-> "queued"]]
  /\ UNCHANGED scanFrame

\* a worker of the pool takes the task of module m
WorkerStarts(m) ==
  /\ scan.futures[m] = "queued"
  /\ Cardinality(Running) < PoolSize
  /\ scan' = [scan EXCEPT !.futures[m] = "running"]
  /\ UNCHANGED scanFrame

WorkerEnds_WritesResults(m, outcome) ==
  /\ scan.futures[m] = "running"
  /\ scan' = [scan EXCEPT !.futures[m] = "finished",
                          !.outcome[m] = outcome,
                          !.results = IF Raises(outcome) THEN @
                                      ELSE DictPut(@, m, Returned(outcome)),
                          !.results_order = IF Raises(outcome) THEN @ ELSE Append(@, m)]
  /\ UNCHANGED scanFrame

\* _run_web_app_risk / _run_security_config / _run_owasp_analysis in a
\* worker: the module is constructed and executed; the future is set to the
\* returned value or to the exception
WorkerEnds(m, outcome) ==
  /\ scan.futures[m] = "running"
  /\ scan' = [scan EXCEPT !.futures[m] = "finished", !.outcome[m] = outcome]
  /\ UNCHANGED scanFrame

Merge_KeepsLast(m) ==
  /\ scan.pc = "as_completed"
  /\ scan.futures[m] = "finished"
  /\ m \notin scan.yielded
  /\ scan' = [scan EXCEPT
                !.yielded = @ \cup {m},
                !.results = IF Raises(scan.outcome[m]) THEN @
                            ELSE DictPut(EmptyDict, m, Returned(scan.outcome[m])),
                !.results_order = IF Raises(scan.outcome[m]) THEN @ ELSE <<m>>]
  /\ UNCHANGED scanFrame

\* one round of "for future in as_completed(futures)" in the thread that
\* called scan(): future.result() returns the value or raises the task's
\* exception, which is printed
Merge(m) ==
  /\ scan.pc = "as_completed"
  /\ scan.futures[m] = "finished"
  /\ m \notin scan.yielded
  /\ scan' = [scan EXCEPT
                !.yielded = @ \cup {m},
                !.results = IF Raises(scan.outcome[m]) THEN @
                            ELSE DictPut(@, m, Returned(scan.outcome[m])),
                !.results_order = IF Raises(scan.outcome[m]) \/ m \in DOMAIN scan.results
                                  THEN @ ELSE Append(@, m)]
  /\ UNCHANGED scanFrame

\* 'findings' in result, result['findings'] raise on None
ConsolidateRaises(result) == ~IsDict(result) \/ result.fkind = "none"

\* _consolidate_findings
RECURSIVE Consolidate(_, _)
Consolidate(res, order) ==
  IF order = << >> THEN << >>
  ELSE (IF res[Head(order)].fkind = "list" THEN res[Head(order)].findings ELSE << >>)
       \o Consolidate(res, Tail(order))

\* the executor is left, the findings are consolidated, the report returned
ScanEnds ==
  /\ scan.pc = "as_completed"
  /\ scan.yielded = ScanModules
  /\ scan' = IF \E m \in DOMAIN scan.results : ConsolidateRaises(scan.results[m])
             THEN [scan EXCEPT !.pc = "crashed"]
             ELSE [scan EXCEPT !.pc = "done",
                               !.total_findings = Consolidate(scan.results,
                                                              scan.results_order)]
  /\ UNCHANGED scanFrame

InitScan ==
  /\ impl = "core"
  /\ InitCache
  /\ OrchUnused
  /\ CallsUnused

WorkerStartsAny == \E m \in ScanModules : WorkerStarts(m)

\* what a module of the parallel scanner does
ScanOutcomes == ModuleOutcomes \cup {"ok_many"}

WorkerEndsAny == \E m \in ScanModules, outcome \in ScanOutcomes : WorkerEnds(m, outcome)

MergeAny == \E m \in ScanModules : Merge(m)

NextScan ==
  \/ ScanStart
  \/ WorkerStartsAny
  \/ WorkerEndsAny
  \/ MergeAny
  \/ ScanEnds

SpecScan == InitScan /\ [][NextScan]_vars

\* C25: in parallel mode, self.results is written only by the thread that
\* called scan(), one entry per round of the as_completed loop, and the
\* entry of a module only after that module's future has completed; no
\* step of a worker changes self.results, in any interleaving.
C25_OnlyCoordinatorWrites ==
  /\ [][scan'.results # scan.results =>
          \E m \in ScanModules :
            /\ scan.futures[m] = "finished"
            /\ scan'.futures = scan.futures
            /\ scan'.outcome = scan.outcome
            /\ scan.pc = "as_completed"
            /\ m \notin scan.yielded
            /\ scan'.yielded = scan.yielded \cup {m}
            /\ scan'.results = DictPut(scan.results, m, Returned(scan.outcome[m]))
       ]_vars
  /\ [](\A m \in DOMAIN scan.results : scan.futures[m] = "finished" /\ m \in scan.yielded)

C25_Witness ==
  /\ "Security Config" \in DOMAIN scan.results
  /\ scan.futures["Web App Risk"] = "running"
  /\ scan.futures["OWASP Coverage"] = "finished"
  /\ "OWASP Coverage" \notin scan.yielded

\* C26: parallel mode isolates and merges like sequential mode: a module
\* whose execution raises is recorded under its name as a status "error"
\* entry with empty findings, the results of the other modules are merged,
\* and after the scan self.results holds one entry for each of the three
\* modules, in every order of completion.
C26_ParallelLikeSequential ==
  /\ [][\A m \in ScanModules :
          (m \notin scan.yielded /\ m \in scan'.yielded) =>
             /\ m \in DOMAIN scan'.results
             /\ Raises(scan.outcome[m]) =>
                  scan'.results[m] = ErrorResult(ExceptionMessage(scan.outcome[m]))
             /\ ~Raises(scan.outcome[m]) =>
                  scan'.results[m] = Returned(scan.outcome[m])
       ]_vars
  /\ [](scan.pc \in {"done", "crashed"} => DOMAIN scan.results = ScanModules)

(***************************************************************************)
(* Claim about stale reads of the core cache, checked under Spec, where    *)
(* every durable access of an operation may fail.                          *)
(***************************************************************************)
\* What get can return for a value that set stored: the value itself from
\* the memory tier, its JSON round trip from the durable tier
ReadsOf(v) == {v, JsonLoads(JsonDumps(v))}

\* C30: whatever durable accesses fail, get(k) never returns a stale value:
\* after set(k, v, ttl) it returns v or nothing, never a value that this
\* set has overwritten, and after delete(k) or clear() it returns nothing,
\* as long as no other set(k, ...) came in between.  (The operation before
\* the get is the set, delete or clear in question; time may pass between
\* the two.)
C30_NoStaleRead ==
  [][\A k \in Keys :
       /\ (PrevOp("set", k) /\ OpStep("get", k)) =>
            lastOp'.ret \in ReadsOf(lastOp.val) \cup {None}
       /\ (PrevOp("delete", k) /\ OpStep("get", k)) => lastOp'.ret = None
       /\ (lastOp.op = "clear" /\ OpStep("get", k)) => lastOp'.ret = None
    ]_vars

(***************************************************************************)
(* Claims about the two tiers of the core cache, checked under Spec.       *)
(***************************************************************************)
\* The durable tier holds key k as the memory tier does: one row, with the
\* JSON text of the memory entry's value and with its expires_at
Coherent(k) ==
  /\ RowsOf(db, k) # {}
  /\ \A r \in RowsOf(db, k) :
       /\ r.data = JsonDumps(memory_cache[k].data)
       /\ r.expires_at = memory_cache[k].expires_at

\* C31: in one core CacheManager, after any sequence of set, get, delete,
\* clear, cleanup_expired and clock advances, every key of the memory tier
\* whose entry was not written by a set that failed to reach the durable
\* tier is also in the durable tier, with the same value and the same
\* expires_at.
C31_TierCoherence ==
  \A k \in DOMAIN memory_cache : k \notin durableLost => Coherent(k)

C31_Witness ==
  /\ now > 0
  /\ lastOp.op = "cleanup_expired"
  /\ lastOp.fail = NoFail
  /\ durableLost = {}
  /\ \E k \in DOMAIN memory_cache : memory_cache[k].data = "tup" /\ Coherent(k)

\* C32: a get(k) served from the memory tier (unexpired entry) adds one to
\* the hit_count of that memory entry and changes nothing else: the other
\* memory entries and the whole durable tier, the row's hit_count included,
\* stay as they are, so total_hits of get_stats, summed over the rows, does
\* not grow.
C32_MemoryHitLeavesDurable ==
  [][\A k \in Keys :
       (OpStep("get", k) /\ lastOp'.tier = "memory") =>
         /\ lastOp'.ret = memory_cache[k].data
         /\ memory_cache' = [memory_cache EXCEPT ![k].hit_count = @ + 1]
         /\ db' = db
         /\ StatsOf(memory_cache', db', now').total_hits
              = StatsOf(memory_cache, db, now).total_hits
    ]_vars

C32_Witness ==
  /\ lastOp.op = "get"
  /\ lastOp.tier = "memory"
  /\ RowsOf(db, lastOp.key) # {}
  /\ FetchOne(db, lastOp.key).hit_count = 0
  /\ memory_cache[lastOp.key].hit_count > 0

(***************************************************************************)
(* The global cache instances: get_cache_manager (core) and get_api_cacher *)
(* (utils), called by threads.  A step is one access to the global.        *)
(***************************************************************************)
singletonFrame == <<cacheVars, orchVars, callVars, slice, lock, threads, scan>>

Caller(t, rec) == [singleton EXCEPT !.callers[t] = rec]

\* thread t calls the function of module m and evaluates
\* "if _global_cache is None"
GlobalTest(t, m) ==
  /\ singleton.callers[t].pc = "idle"
  /\ singleton' = Caller(t, [IdleCaller EXCEPT
                               !.module = m,
                               !.pc = IF singleton.global[m] = 0 THEN "construct"
                                      ELSE "return"])
  /\ UNCHANGED singletonFrame

\* CacheManager() / CacheManager(db_path): a new instance
Construct(t) ==
  LET m == singleton.callers[t].module
  IN
  /\ singleton.callers[t].pc = "construct"
  /\ singleton' = [singleton EXCEPT
                     !.created[m] = @ + 1,
                     !.callers[t].made = singleton.created[m] + 1,
                     !.callers[t].pc = "assign"]
  /\ UNCHANGED singletonFrame

\* _global_cache = <the new instance>
Assign(t) ==
  LET m == singleton.callers[t].module
  IN
  /\ singleton.callers[t].pc = "assign"
  /\ singleton' = [singleton EXCEPT
                     !.global[m] = singleton.callers[t].made,
                     !.callers[t].pc = "return"]
  /\ UNCHANGED singletonFrame

\* return _global_cache
ReturnGlobal(t) ==
  LET m == singleton.callers[t].module
  IN
  /\ singleton.callers[t].pc = "return"
  /\ singleton' = [singleton EXCEPT
                     !.returned[m] = @ \cup {singleton.global[m]},
                     !.callers[t].got = singleton.global[m],
                     !.callers[t].pc = "idle"]
  /\ UNCHANGED singletonFrame

InitSingleton ==
  /\ impl = "core"
  /\ InitCache
  /\ OrchUnused
  /\ CallsUnused

GlobalTestAny == \E t \in Threads, m \in CacheModules : GlobalTest(t, m)

ConstructAny == \E t \in Threads : Construct(t)

AssignAny == \E t \in Threads : Assign(t)

ReturnGlobalAny == \E t \in Threads : ReturnGlobal(t)

NextSingleton ==
  \/ GlobalTestAny
  \/ ConstructAny
  \/ AssignAny
  \/ ReturnGlobalAny

SpecSingleton == InitSingleton /\ [][NextSingleton]_vars

\* C33: get_cache_manager (core) and get_api_cacher (utils) construct at
\* most one CacheManager per process and return that one instance on every
\* call, also when the first calls are made by several threads at once.
C33_OneInstance ==
  \A m \in CacheModules :
    /\ singleton.created[m] <= 1
    /\ Cardinality(singleton.returned[m]) <= 1

(***************************************************************************)
(* The lock of a CacheManager (core or utils), as the operations use it:   *)
(* "with self.lock" around a body whose storage accesses return or raise,  *)
(* the helper _delete_expired called inside the body of utils get, and     *)
(* get_cached_response, which calls get and then set.  The outcome of     *)
(* each storage access and each request is drawn.                          *)
(***************************************************************************)
MaxCalls == 2

CoreOps == {"set", "get", "delete", "clear", "cleanup_expired", "get_stats",
            "get_cached_response"}

UtilsOps == {"set", "get", "delete", "clear", "cleanup_expired", "stats",
             "get_cached_response"}

BodyOutcomes == {"hit", "miss", "expired", "raises", "propagates"}

IdleLocker == [op |-> None, inner |-> None, pc |-> "idle", found |-> FALSE, calls |-> 0]

lockFrame == <<cacheVars, orchVars, callVars, slice, scan, singleton>>

\* thread t calls operation op of the manager
LCall(t, op) ==
  /\ threads[t].pc = "idle"
  /\ threads[t].calls < MaxCalls
  /\ op \in (IF impl = "core" THEN CoreOps ELSE UtilsOps)
  /\ threads' = [threads EXCEPT ![t] =
                   [op    |-> op,
                    inner |-> IF op = "get_cached_response" THEN "get" ELSE op,
                    pc    |-> IF op = "get_stats" THEN "body" ELSE "acquire",
                    found |-> FALSE,
                    calls |-> threads[t].calls + 1]]
  /\ UNCHANGED lock
  /\ UNCHANGED lockFrame

\* with self.lock: the thread waits until the lock is free, also when it
\* holds the lock itself (threading.Lock)
LAcquire(t) ==
  /\ threads[t].pc = "acquire"
  /\ lock = "free"
  /\ lock' = t
  /\ threads' = At(t, "body")
  /\ UNCHANGED lockFrame

\* the statements inside the with block (get_stats of core: the whole
\* function); a raise leaves the with block like a return does
LBody(t, outcome) ==
  /\ threads[t].pc = "body"
  /\ outcome = "propagates" =>
       impl = "core" /\ threads[t].inner \in {"get", "delete", "clear", "cleanup_expired"}
  /\ threads' = [threads EXCEPT
                   ![t].found = (outcome = "hit"),
                   ![t].pc = IF lock # t THEN "idle"
                             ELSE IF impl = "utils" /\ threads[t].inner = "get"
                                     /\ outcome = "expired"
                             THEN "helper"
                             ELSE IF outcome = "propagates" THEN "unwind"
                             ELSE "release"]
  /\ UNCHANGED lock
  /\ UNCHANGED lockFrame

LHelper_Locked(t, outcome) ==
  /\ threads[t].pc = "helper"
  /\ lock = "free"
  /\ threads' = At(t, "release")
  /\ UNCHANGED lock
  /\ UNCHANGED lockFrame

\* utils _delete_expired(key), called by get inside the with block: it
\* opens its own connection and takes no lock; a raise is swallowed
LHelper(t, outcome) ==
  /\ threads[t].pc = "helper"
  /\ threads' = At(t, "release")
  /\ UNCHANGED lock
  /\ UNCHANGED lockFrame

\* leaving the with block, by return or by exception; get_cached_response
\* goes on after its get
LRelease(t) ==
  LET me == threads[t]
  IN
  /\ me.pc \in {"release", "unwind"}
  /\ lock' = "free"
  /\ threads' = At(t, IF me.pc = "release" /\ me.op = "get_cached_response"
                         /\ me.inner = "get" /\ ~me.found
                      THEN "request" ELSE "idle")
  /\ UNCHANGED lockFrame

\* get_cached_response after a miss: requests.get, then set of what is
\* cached (core: a 200 response; utils: every response)
LRequest(t, resp) ==
  LET cached == IF impl = "core" THEN resp = "resp200" ELSE resp # "error"
  IN
  /\ threads[t].pc = "request"
  /\ threads' = IF cached
                THEN [threads EXCEPT ![t].inner = "set", ![t].pc = "acquire"]
                ELSE At(t, "idle")
  /\ UNCHANGED lock
  /\ UNCHANGED lockFrame

InitLocks ==
  /\ impl \in {"core", "utils"}
  /\ InitCache
  /\ OrchUnused
  /\ keygen = << >>
  /\ http = << >>
  /\ risk = << >>
  /\ slice = << >>
  /\ scan = NewScanner
  /\ singleton = ModulesLoaded
  /\ lock = "free"
  /\ threads = [t \in Threads |-> IdleLocker]

LCallAny == \E t \in Threads, op \in CoreOps \cup UtilsOps : LCall(t, op)

LAcquireAny == \E t \in Threads : LAcquire(t)

LBodyAny == \E t \in Threads, outcome \in BodyOutcomes : LBody(t, outcome)

LHelperAny == \E t \in Threads, outcome \in {"ok", "raises"} : LHelper(t, outcome)

LReleaseAny == \E t \in Threads : LRelease(t)

LRequestAny == \E t \in Threads, resp \in {"resp200", "resp404", "error"} : LRequest(t, resp)

NextLocks ==
  \/ LCallAny
  \/ LAcquireAny
  \/ LBodyAny
  \/ LHelperAny
  \/ LReleaseAny
  \/ LRequestAny

\* the steps of thread t after its call
LStep(t) ==
  \/ LAcquire(t)
  \/ \E outcome \in BodyOutcomes : LBody(t, outcome)
  \/ \E outcome \in {"ok", "raises"} : LHelper(t, outcome)
  \/ LRelease(t)
  \/ \E resp \in {"resp200", "resp404", "error"} : LRequest(t, resp)

SpecLocks == InitLocks /\ [][NextLocks]_vars

\* every storage access and every request returns, and a thread that can
\* run does run
SpecLocksFair == SpecLocks /\ \A t \in Threads : WF_vars(LStep(t))

\* C34: the lock of a core or utils CacheManager cannot deadlock: the
\* thread that holds the lock is inside a with block and never waits for
\* the lock, a thread outside an operation does not hold it, and every
\* call of an operation returns.
C34_EveryCallReturns ==
  /\ [](\A t \in Threads : lock = t => threads[t].pc \in {"body", "helper", "release", "unwind"})
  /\ \A t \in Threads : (threads[t].pc # "idle") ~> (threads[t].pc = "idle")

\* utils get is in _delete_expired with the lock held while the other
\* thread waits for the lock
C34_Witness ==
  \E t \in Threads, u \in Threads :
    /\ impl = "utils"
    /\ lock = t
    /\ threads[t].pc = "helper"
    /\ threads[u].pc = "acquire"
    /\ threads[u].op = "get_cached_response"
    /\ threads[u].inner = "set"

(***************************************************************************)
(* run_scan called up to twice on one ScanOrchestrator; the modules make   *)
(* no progress reports and no callback is given.                           *)
(***************************************************************************)
InitOrchTwice ==
  /\ impl = "core"
  /\ InitCache
  /\ OrchConstructed
  /\ selected_modules \in Selections
  /\ has_callback = FALSE
  /\ run_limit = 2
  /\ CallsUnused

NextOrchTwice ==
  \/ RunScan
  \/ TechDetectionAny
  \/ ModuleStart
  \/ ModuleEndsAny
  \/ Finalize

SpecOrchTwice == InitOrchTwice /\ [][NextOrchTwice]_vars

\* the distinct members of ids, in the order of their first occurrence
RECURSIVE FirstOccurrences(_)
FirstOccurrences(ids) ==
  IF ids = << >> THEN << >>
  ELSE LET before == FirstOccurrences(SubSeq(ids, 1, Len(ids) - 1))
           last   == ids[Len(ids)]
       IN IF last \in Range(before) THEN before ELSE Append(before, last)

\* the keys run_scan stores before the metadata, in one run
StoredByRun == {"tech_stack"} \cup Range(modules_to_run)

\* C35: for every call of run_scan on a ScanOrchestrator, also a second
\* call on the same object, the returned metadata describes that run only:
\* modules_executed is 'tech_stack' followed by the distinct ids of the
\* filtered selection and does not contain 'metadata', results holds the
\* entries of this run only, and total_findings is the sum of the findings
\* counts of the entries stored by this run.
C35_MetadataOfThisRun ==
  pc = "done" =>
    /\ results["metadata"].modules_executed
         = <<"tech_stack">> \o FirstOccurrences(modules_to_run)
    /\ "metadata" \notin Range(results["metadata"].modules_executed)
    /\ DOMAIN results = StoredByRun \cup {"metadata"}
    /\ results["metadata"].total_findings = SumFindings(results, StoredByRun)

(***************************************************************************)
(* _generate_final_report of the parallel scanner, computed from           *)
(* self.total_findings after scan() has consolidated the results.          *)
(***************************************************************************)
\* f.get('severity') of the findings the modules return; "f6" carries a
\* severity that is none of the five names
ScanSeverity(f) ==
  CASE f = "f1" -> "critical"
    [] f = "f2" -> "medium"
    [] f = "f3" -> "high"
    [] f = "f4" -> "low"
    [] f = "f5" -> "info"
    [] OTHER    -> "CRITICAL"

\* len([f for f in self.total_findings if f.get('severity') == sev])
CountSeverity(findings, sev) ==
  Cardinality({i \in DOMAIN findings : ScanSeverity(findings[i]) = sev})

\* _calculate_risk_score
RiskScore(critical, high, medium) ==
  LET score == (critical * 10) + (high * 5) + (medium * 2)
  IN IF score < 100 THEN score ELSE 100

\* the scan_summary and "modules" of the report
FinalReport(findings, res) ==
  [total_findings |-> Len(findings),
   critical       |-> CountSeverity(findings, "critical"),
   high           |-> CountSeverity(findings, "high"),
   medium         |-> CountSeverity(findings, "medium"),
   low            |-> CountSeverity(findings, "low"),
   info           |-> CountSeverity(findings, "info"),
   risk_score     |-> RiskScore(CountSeverity(findings, "critical"),
                                CountSeverity(findings, "high"),
                                CountSeverity(findings, "medium")),
   modules        |-> res]

\* the order in which scan() submits the three tasks
Submitted == <<"Web App Risk", "Security Config", "OWASP Coverage">>

\* the module entries that the outcomes of the three modules determine
EntriesOf(outcome) ==
  [m \in {x \in ScanModules : ~Raises(outcome[x])} |-> Returned(outcome[m])]

\* whether the outcomes make _consolidate_findings raise
RaisesOn(outcome) ==
  \E m \in ScanModules : ~Raises(outcome[m]) /\ ConsolidateRaises(Returned(outcome[m]))

\* the report that the outcomes of the three modules determine, with the
\* findings taken in the order of submission
ReportOf(outcome) ==
  LET res   == EntriesOf(outcome)
      InRes(m) == m \in DOMAIN res
  IN FinalReport(Consolidate(res, SelectSeq(Submitted, InRes)), res)

\* C36: the report of parallel mode does not depend on the order in which
\* the three futures complete: whatever the order, scan() ends as the
\* outcomes of the three modules determine, and its report has the module
\* entries, the count per severity, the total_findings and the risk_score
\* = min(10*critical + 5*high + 2*medium, 100) that these outcomes
\* determine.
C36_ReportIgnoresCompletionOrder ==
  /\ scan.pc = "crashed" => RaisesOn(scan.outcome)
  /\ scan.pc = "done" =>
       /\ ~RaisesOn(scan.outcome)
       /\ FinalReport(scan.total_findings, scan.results) = ReportOf(scan.outcome)

\* a scan whose last submitted task completed first and whose score is
\* capped
C36_Witness ==
  /\ scan.pc = "done"
  /\ Len(scan.results_order) = 3
  /\ scan.results_order[1] = "OWASP Coverage"
  /\ scan.results_order[3] = "Security Config"
  /\ scan.outcome["Security Config"] = "ok_findings"
  /\ FinalReport(scan.total_findings, scan.results).critical = 9
  /\ FinalReport(scan.total_findings, scan.results).total_findings = 18
  /\ FinalReport(scan.total_findings, scan.results).risk_score = 100

(***************************************************************************)
(* core/cache_manager.py : APICallCacher.get_cached_response on one core   *)
(* CacheManager.  http holds the last call and, for every key, the time    *)
(* up to which the record cached by a call stays valid: the expiry that    *)
(* the call gave it, or 0 after a delete of the key or a clear.            *)
(***************************************************************************)
\* the result dict built from a 200 response (JSON serializable)
ResultRecord == "rec"

ApiParams == { NoParams, [given |-> TRUE, items |-> << <<"a", "one">> >>] }

ApiUrls == { <<"u">> }

ApiKeys == { _generate_cache_key(url, params, <<"GET">>) : url \in ApiUrls, params \in ApiParams }

\* self.cache.get(cache_key): the tiers it leaves and the value it returns
GetOutcome(cache_key, env) ==
  LET inMem  == cache_key \in DOMAIN memory_cache
      memHit == inMem /\ MemFresh(memory_cache[cache_key], now)
      expMem == inMem /\ ~memHit
      mem1   == IF expMem THEN DictDel(memory_cache, cache_key) ELSE memory_cache
      lost1  == IF expMem THEN durableLost \ {cache_key} ELSE durableLost
      found  == RowsOf(db, cache_key) # {}
      row    == FetchOne(db, cache_key)
  IN
  IF memHit
  THEN [mem |-> [memory_cache EXCEPT ![cache_key].hit_count = @ + 1], db |-> db,
        lost |-> durableLost, ret |-> memory_cache[cache_key].data]
  ELSE IF env # NoFail \/ ~found
  THEN [mem |-> mem1, db |-> db, lost |-> lost1, ret |-> None]
  ELSE IF RowFresh(row, now)
  THEN [mem |-> DictPut(mem1, cache_key,
                        MemEntry(JsonLoads(row.data), row.expires_at, row.hit_count + 1)),
        db |-> UpdateHit(db, cache_key), lost |-> lost1, ret |-> JsonLoads(row.data)]
  ELSE [mem |-> mem1, db |-> db \ RowsOf(db, cache_key), lost |-> lost1, ret |-> None]

NoCall ==
  [n |-> 0, key |-> None, lookup |-> None, served |-> None, ret |-> None]

NoCalls == [valid |-> [k \in ApiKeys |-> 0], last |-> NoCall]

GetCachedResponse_NoLookup(url, params, ttl_seconds, envGet, net, envSet) ==
  LET cache_key   == _generate_cache_key(url, params, <<"GET">>)
      got         == [mem |-> memory_cache, db |-> db, lost |-> durableLost, ret |-> None]
      cached_data == got.ret
      served      == IF cached_data # None THEN "cache"
                     ELSE IF net = "resp200" THEN "network" ELSE "failed"
      expires_at  == now + ttl_seconds
      call        == [n |-> 1 - http.last.n, key |-> cache_key,
                      lookup |-> cached_data, served |-> served,
                      ret |-> IF served = "cache"
                              THEN [record |-> cached_data, from_cache |-> TRUE]
                              ELSE IF served = "network"
                              THEN [record |-> ResultRecord, from_cache |-> FALSE]
                              ELSE None]
  IN
  /\ impl = "core"
  /\ cache_key \in DOMAIN memory_cache => memory_cache[cache_key].hit_count <= MaxHits
  /\ \A r \in RowsOf(db, cache_key) : r.hit_count < MaxHits
  /\ served = "cache" => (net = "resp200" /\ envSet = NoFail)
  /\ (cached_data # None /\ cache_key \in DOMAIN memory_cache) => envGet = NoFail
  /\ served = "failed" => envSet = NoFail
  /\ http' = [valid |-> IF served = "network"
                         THEN [http.valid EXCEPT ![cache_key] = expires_at]
                         ELSE http.valid,
               last  |-> call]
  /\ IF served = "network"
     THEN /\ memory_cache' = DictPut(got.mem, cache_key, MemEntry(ResultRecord, expires_at, 0))
          /\ db' = IF envSet = NoFail
                   THEN InsertOrReplace(got.db, DbRow(cache_key, JsonDumps(ResultRecord),
                                                      expires_at, 0))
                   ELSE got.db
          /\ durableLost' = IF envSet = NoFail THEN got.lost \ {cache_key}
                            ELSE got.lost \cup {cache_key}
          /\ lastOp' = [InitOp EXCEPT !.op = "set", !.key = cache_key]
     ELSE /\ memory_cache' = got.mem
          /\ db' = got.db
          /\ durableLost' = got.lost
          /\ lastOp' = [InitOp EXCEPT !.op = "get", !.key = cache_key]
  /\ UNCHANGED <<impl, now>>
  /\ UNCHANGED <<orchVars, keygen, risk, otherVars>>

\* cached_data = self.cache.get(cache_key); if it is not None it is
\* returned with _from_cache = True; else requests.get, and for a 200
\* response self.cache.set(cache_key, result, ttl_seconds)
GetCachedResponse(url, params, ttl_seconds, envGet, net, envSet) ==
  LET cache_key   == _generate_cache_key(url, params, <<"GET">>)
      got         == GetOutcome(cache_key, envGet)
      cached_data == got.ret
      served      == IF cached_data # None THEN "cache"
                     ELSE IF net = "resp200" THEN "network" ELSE "failed"
      expires_at  == now + ttl_seconds
      call        == [n |-> 1 - http.last.n, key |-> cache_key,
                      lookup |-> cached_data, served |-> served,
                      ret |-> IF served = "cache"
                              THEN [record |-> cached_data, from_cache |-> TRUE]
                              ELSE IF served = "network"
                              THEN [record |-> ResultRecord, from_cache |-> FALSE]
                              ELSE None]
  IN
  /\ impl = "core"
  /\ cache_key \in DOMAIN memory_cache => memory_cache[cache_key].hit_count <= MaxHits
  /\ \A r \in RowsOf(db, cache_key) : r.hit_count < MaxHits
  /\ served = "cache" => (net = "resp200" /\ envSet = NoFail)
  /\ (cached_data # None /\ cache_key \in DOMAIN memory_cache) => envGet = NoFail
  /\ served = "failed" => envSet = NoFail
  /\ http' = [valid |-> IF served = "network"
                         THEN [http.valid EXCEPT ![cache_key] = expires_at]
                         ELSE http.valid,
               last  |-> call]
  /\ IF served = "network"
     THEN /\ memory_cache' = DictPut(got.mem, cache_key, MemEntry(ResultRecord, expires_at, 0))
          /\ db' = IF envSet = NoFail
                   THEN InsertOrReplace(got.db, DbRow(cache_key, JsonDumps(ResultRecord),
                                                      expires_at, 0))
                   ELSE got.db
          /\ durableLost' = IF envSet = NoFail THEN got.lost \ {cache_key}
                            ELSE got.lost \cup {cache_key}
          /\ lastOp' = [InitOp EXCEPT !.op = "set", !.key = cache_key]
     ELSE /\ memory_cache' = got.mem
          /\ db' = got.db
          /\ durableLost' = got.lost
          /\ lastOp' = [InitOp EXCEPT !.op = "get", !.key = cache_key]
  /\ UNCHANGED <<impl, now>>
  /\ UNCHANGED <<orchVars, keygen, risk, otherVars>>

\* cache.delete(cache_key), called between the requests
ApiDelete(cache_key, env) ==
  /\ impl = "core"
  /\ http' = [http EXCEPT !.valid[cache_key] = 0]
  /\ memory_cache' = DictDel(memory_cache, cache_key)
  /\ db' = IF env = NoFail THEN db \ RowsOf(db, cache_key) ELSE db
  /\ durableLost' = durableLost \ {cache_key}
  /\ lastOp' = [InitOp EXCEPT !.op = "delete", !.key = cache_key]
  /\ UNCHANGED <<impl, now>>
  /\ UNCHANGED <<orchVars, keygen, risk, otherVars>>

\* cache.clear(), called between the requests
ApiClear(env) ==
  /\ impl = "core"
  /\ http' = [http EXCEPT !.valid = [k \in ApiKeys |-> 0]]
  /\ memory_cache' = EmptyDict
  /\ db' = IF env = NoFail THEN {} ELSE db
  /\ durableLost' = {}
  /\ lastOp' = [InitOp EXCEPT !.op = "clear"]
  /\ UNCHANGED <<impl, now>>
  /\ UNCHANGED <<orchVars, keygen, risk, otherVars>>

InitApi ==
  /\ impl = "core"
  /\ InitCache
  /\ OrchUnused
  /\ keygen = << >>
  /\ http = NoCalls
  /\ risk = << >>
  /\ OthersUnused

\* the request without params takes every ttl, the one with params one ttl
ApiArgs == {a \in ApiUrls \X ApiParams \X TTLs : a[2] = NoParams \/ a[3] = MaxTTL}

\* the storage fails in the calls of the request without params
GetCachedResponseAny ==
  \E a \in ApiArgs, envGet \in EnvFails, net \in NetworkOutcomes, envSet \in EnvFails :
    /\ a[2] # NoParams => (envGet = NoFail /\ envSet = NoFail)
    /\ GetCachedResponse(a[1], a[2], a[3], envGet, net, envSet)

ApiDeleteAny == \E cache_key \in ApiKeys, env \in EnvFails : ApiDelete(cache_key, env)

ApiClearAny == \E env \in EnvFails : ApiClear(env)

CleanupExpiredAny == \E env \in EnvFails : CleanupExpired(env)

NextApi ==
  \/ Tick
  \/ GetCachedResponseAny
  \/ ApiDeleteAny
  \/ ApiClearAny
  \/ CleanupExpiredAny

SpecApi == InitApi /\ [][NextApi]_vars

\* this step is a call of get_cached_response
IsCall == http'.last.n # http.last.n

\* the record that a call cached under the key of this call is still
\* valid: its TTL has not expired, and no delete of the key and no clear
\* came after it
StillCached == now < http.valid[http'.last.key]

\* C37: get_cached_response prevents redundant remote lookups: once a call
\* for (url, params) got a 200 response and cached it, every later call
\* with the same url and params, before the TTL has expired and before any
\* delete or clear, makes no remote request and returns the cached record
\* with _from_cache = true; a remote request is made only after the lookup
\* returned absent; and a call whose request ends in a non-200 response or
\* in an error returns None and writes nothing to the cache.
C37_NoRedundantLookup ==
  /\ [][(IsCall /\ StillCached)
        => /\ http'.last.served = "cache"
           /\ http'.last.ret = [record |-> ResultRecord, from_cache |-> TRUE]
       ]_vars
  /\ [](http.last.served \in {"network", "failed"} => http.last.lookup = None)
  /\ [][(IsCall /\ http'.last.served = "failed")
        => /\ http'.last.ret = None
           /\ DOMAIN memory_cache' \subseteq DOMAIN memory_cache
           /\ \A k \in DOMAIN memory_cache' : memory_cache'[k] = memory_cache[k]
           /\ db' \subseteq db
       ]_vars

\* a call served from the memory tier, some time after the call that
\* cached the record, whose durable write had failed
C37_Witness ==
  /\ http.last.served = "cache"
  /\ http.last.key \in durableLost
  /\ RowsOf(db, http.last.key) = {}
  /\ now > 0
  /\ now < http.valid[http.last.key]
  /\ http.valid[http.last.key] <= MaxTTL
  /\ http.last.ret = [record |-> ResultRecord, from_cache |-> TRUE]

====
